---- MODULE Spec2Model ----
(***************************************************************************)
(* Model of the Microsoft 365 MCP server worker (src/src/index.ts and the   *)
(* handler / agent code in src/src/utils.ts).                               *)
(*                                                                          *)
(*   Spec        the worker's fetch entry point: unifiedHandler, the       *)
(*               protocol dispatcher handleHybridMcp and the direct        *)
(*               JSON-RPC handler handleDirectJsonRpc.                     *)
(*   SpecSSE     the life of the SSE streams opened by handleSSEMcp and    *)
(*               served by handleMCPConnection (handshake, keepalive       *)
(*               interval, 5 minute timer).                                *)
(*   SpecSSEFair SpecSSE with the event loop's fairness.                   *)
(*   SpecResolver concurrent invocations of the client-id mapping          *)
(*               functions handleAuthorizeWithClientMapping and            *)
(*               handleTokenWithClientMapping.                             *)
(*   SpecBridge  the MicrosoftHandler routes /authorize and /callback.     *)
(*   SpecToken   the provider's tokenExchangeCallback against the upstream *)
(*               identity provider.                                        *)
(***************************************************************************)
EXTENDS Integers, Sequences, FiniteSets, TLC

VARIABLES
    phase,              \* "idle" | "handled": position of the worker invocation
    req,                \* the request of the current invocation
    resp,               \* the Response the invocation returned
    route,              \* the handler that produced it
    forwarded,          \* the request handed to OAuthProvider.fetch, if any
    issued,             \* downstream access tokens the OAuth provider has issued
    staticClientActual, \* CONFIG_KV value at static_client_actual:{MCP_CLIENT_ID}
    ssePc,              \* per stream: position inside handleMCPConnection
    written,            \* per stream: chunks written to the stream, in order
    closeCalls,         \* per stream: number of writer.close() calls
    pingInterval,       \* per stream: "unset" | "active" | "cleared"
    closeTimer,         \* per stream: "unset" | "armed" | "fired"
    pingsFired,         \* per stream: interval callbacks run so far
    connected,          \* per stream: the client still reads the stream
    rPc,                \* per mapping call: "idle" | "register" | "done"
    rKind,              \* per mapping call: "none" | "authorize" | "token"
    rRequested,         \* per mapping call: requestedClientId
    rActual,            \* per mapping call: actualClientId as read from CONFIG_KV
    rNew,               \* per mapping call: newActualClientId of its registration
    rAttempts,          \* per mapping call: POST /register requests it has sent
    rForwarded,         \* per mapping call: the request handed to OAuthProvider.fetch
    rResp,              \* per mapping call: the Response it built itself, if any
    registeredClients,  \* client ids the downstream OAuth server has registered
    bPhase,             \* "idle" | "handled": position of the MicrosoftHandler invocation
    bReq,               \* the request MicrosoftHandler is handling
    bResp,              \* the Response it returned (or the exception it threw)
    bInit,              \* what initializeMCPClient did in this invocation
    completion,         \* the argument of completeAuthorization in this invocation
    clientRecord,       \* OAUTH_KV holds client:{MCP_CLIENT_ID}
    lastAttempt,        \* the last state value emitted by redirectToMicrosoft, with its request
    attemptFailed,      \* a /callback carrying lastAttempt's state has failed
    attemptCompleted,   \* a /callback carrying lastAttempt's state was redirected to the client
    attemptUserId,      \* userId of the first completeAuthorization for lastAttempt's state
    reqUrl,             \* protocol and host of the current request's URL
    metadata,           \* the document handleOAuthMetadata put in the response
    wsRouted,           \* per WebSocket upgrade so far: session id and agent instance
    grantProps,         \* the props the OAuth provider keeps on the grant
    tPc,                \* per tokenExchangeCallback call: "idle" | "calling" | "done"
    tOptions,           \* per call: its options (grantType, props)
    tResult,            \* per call: what it returned or that it threw
    tUpstreamCalls,     \* per call: the requests it sent to the Microsoft token endpoint
    tResponses,         \* per call: the answers it got from that endpoint
    redeemedCodes,      \* authorization codes the Microsoft endpoint has redeemed
    minted,             \* per authorization code: access-token props returned for it
    icPc,               \* per initializeMCPClient execution: "idle" | "creating" | "done"
    icOutcome,          \* per execution: "none" | "exists" | "created" | "failed"
    kvClient,           \* OAUTH_KV value at client:{MCP_CLIENT_ID}
    kvPuts,             \* number of puts to that key so far
    aProps,             \* the agent instance's this.props
    aBound,             \* the props the agent's session was bound with
    aPc,                \* per agent request: "idle" | "super" | "graph" | "handled"
    aMode,              \* per agent request: its X-MCP-Mode
    aSaved,             \* per agent request: originalProps of the handshake branch
    aHandler,           \* per agent request: the tool or resource handler it invoked
    aResult,            \* per agent request: what the handler returned
    aGraph              \* per agent request: the Microsoft Graph request it sent

dispatchVars == <<phase, req, resp, route, forwarded, issued, staticClientActual,
                  reqUrl, metadata, wsRouted>>
sseVars == <<ssePc, written, closeCalls, pingInterval, closeTimer, pingsFired, connected>>
resolverVars == <<rPc, rKind, rRequested, rActual, rNew, rAttempts, rForwarded, rResp,
                  registeredClients>>
tokenVars == <<grantProps, tPc, tOptions, tResult, tUpstreamCalls, tResponses, redeemedCodes,
              minted>>
initVars == <<icPc, icOutcome, kvClient, kvPuts>>
agentVars == <<aProps, aBound, aPc, aMode, aSaved, aHandler, aResult, aGraph>>
bridgeVars == <<bPhase, bReq, bResp, bInit, completion, clientRecord, lastAttempt,
                attemptFailed, attemptCompleted, attemptUserId>>
vars == <<phase, req, resp, route, forwarded, issued, staticClientActual,
          ssePc, written, closeCalls, pingInterval, closeTimer, pingsFired, connected,
          rPc, rKind, rRequested, rActual, rNew, rAttempts, rForwarded, rResp,
          registeredClients,
          bPhase, bReq, bResp, bInit, completion, clientRecord, lastAttempt, attemptFailed,
          attemptCompleted, attemptUserId,
          reqUrl, metadata, wsRouted,
          grantProps, tPc, tOptions, tResult, tUpstreamCalls, tResponses,
          redeemedCodes, minted,
          icPc, icOutcome, kvClient, kvPuts,
          aProps, aBound, aPc, aMode, aSaved, aHandler, aResult, aGraph>>

----------------------------------------------------------------------------
(* JavaScript values: what headers.get, searchParams.get and the fields of   *)
(* a parsed JSON message evaluate to.                                       *)

JUndefined == [t |-> "undefined", s |-> ""]
JNull == [t |-> "null", s |-> ""]
JStr(x) == [t |-> "string", s |-> x]
JNum(x) == [t |-> "number", s |-> x]

\* JavaScript truthiness, as used by `a && b`, `!a` and `a || b`.
Truthy(v) ==
    CASE v.t = "string" -> v.s # ""
      [] v.t = "number" -> v.s # "0"
      [] OTHER -> FALSE

\* String.prototype.toLowerCase on the header values of the model.
ToLowerCase(x) ==
    CASE x = "WebSocket" -> "websocket"
      [] x = "WEBSOCKET" -> "websocket"
      [] x = "H2C" -> "h2c"
      [] OTHER -> x

\* acceptHeader.includes('text/event-stream') on the Accept values of the model.
IncludesEventStream(x) ==
    x \in {"text/event-stream", "application/json, text/event-stream"}

----------------------------------------------------------------------------
(* Program constants                                                        *)

MCP_CLIENT_ID == "rWJu8WV42zC5pfGT"
WORKER_DOMAIN == "worker.example.workers.dev"

PARSE_ERROR == -32700
INVALID_REQUEST == -32600
METHOD_NOT_FOUND == -32601
AUTH_REQUIRED == -32001

PING_INTERVAL_MS == 30000
SSE_TIMEOUT_MS == 300000

handshakeMethods ==
    {"initialize", "initialized", "tools/list", "resources/list", "prompts/list",
     "notifications/initialized", "notifications/cancelled"}

----------------------------------------------------------------------------
(* Bounds and input domains                                                 *)

NumStreams == 2
Streams == 1..NumStreams

Tokens == {"tokA"}
Faults == {"none", "stub", "pair"}

NoBody == [kind |-> "none", method |-> JUndefined, id |-> JUndefined]

\* Bodies of a POST: text that is not JSON, the JSON value null, a JSON scalar
\* or array (no fields), and JSON objects with or without method / id.
MethodNames ==
    {"initialize", "initialized", "tools/list", "resources/list", "prompts/list",
     "notifications/initialized", "notifications/cancelled",
     "list_tools", "tools/call", "resources/read", "ping"}
MethodValues == {JUndefined, JStr(""), JNum("5")} \cup {JStr(m) : m \in MethodNames}
IdValues == {JUndefined, JNull, JNum("0"), JNum("1")}
PostBodies ==
    {[kind |-> k, method |-> JUndefined, id |-> JUndefined] :
        k \in {"unparsable", "null", "scalar"}}
      \cup {[kind |-> "object", method |-> m, id |-> i] : m \in MethodValues, i \in IdValues}
RoutingBodies ==
    {[kind |-> "unparsable", method |-> JUndefined, id |-> JUndefined],
     [kind |-> "object", method |-> JStr("tools/list"), id |-> JNum("1")],
     [kind |-> "object", method |-> JStr("tools/call"), id |-> JNum("1")]}

UpgradeValues == {JNull, JStr(""), JStr("websocket"), JStr("WebSocket"), JStr("WEBSOCKET"), JStr("h2c")}
KeyValues == {JNull, JStr(""), JStr("dGhlIHNhbXBsZSBub25jZQ==")}
VersionValues == {JNull, JStr(""), JStr("13")}
AcceptValues ==
    {JNull, JStr("application/json"), JStr("text/event-stream"),
     JStr("application/json, text/event-stream")}
AuthorizationValues == {JNull, JStr("forged")} \cup {JStr(t) : t \in Tokens}
HostValues == {JNull, JStr(""), JStr("mcp.example.com")}
ClientIdValues == {JNull, JStr(MCP_CLIENT_ID), JStr("dynClient1")}

ssePath == <<"sse">>
OtherPaths ==
    {<<>>, <<"info">>, <<"health">>, <<"ssex">>,
     <<".well-known", "oauth-authorization-server">>,
     <<"authorize">>, <<"token">>, <<"register">>, <<"callback">>}

\* Requests that exercise the protocol detection: every combination of the
\* handshake headers, method and Accept, on the unified endpoint.
RoutingRequests ==
    {[path |-> p, method |-> m, upgrade |-> u, wsKey |-> k, wsVersion |-> v,
      accept |-> a, authorization |-> JNull, host |-> JStr("mcp.example.com"),
      clientId |-> JNull, body |-> b] :
        p \in {ssePath, <<"sse", "message">>}, m \in {"GET", "PUT", "DELETE"},
        u \in UpgradeValues, k \in KeyValues, v \in VersionValues,
        a \in AcceptValues, b \in {NoBody}}
      \cup
    {[path |-> ssePath, method |-> "POST", upgrade |-> u, wsKey |-> k, wsVersion |-> v,
      accept |-> a, authorization |-> JNull, host |-> JStr("mcp.example.com"),
      clientId |-> JNull, body |-> b] :
        u \in UpgradeValues, k \in KeyValues, v \in VersionValues,
        a \in {JNull, JStr("text/event-stream")}, b \in RoutingBodies}

\* POSTs without handshake headers: every body, authorization and Host value.
JsonRpcRequests ==
    {[path |-> ssePath, method |-> "POST", upgrade |-> JNull, wsKey |-> JNull,
      wsVersion |-> JNull, accept |-> JStr("application/json"), authorization |-> au,
      host |-> h, clientId |-> JNull, body |-> b] :
        au \in AuthorizationValues, h \in HostValues, b \in PostBodies}

\* Requests to the other paths of the worker.
OtherRequests ==
    {[path |-> p, method |-> m, upgrade |-> JNull, wsKey |-> JNull,
      wsVersion |-> JNull, accept |-> JNull, authorization |-> JNull,
      host |-> JStr("mcp.example.com"), clientId |-> c, body |-> NoBody] :
        p \in OtherPaths, m \in {"GET", "POST"}, c \in ClientIdValues}

Requests == RoutingRequests \cup JsonRpcRequests \cup OtherRequests

NoRequest ==
    [path |-> <<>>, method |-> "", upgrade |-> JNull, wsKey |-> JNull,
     wsVersion |-> JNull, accept |-> JNull, authorization |-> JNull,
     host |-> JNull, clientId |-> JNull, body |-> NoBody]

----------------------------------------------------------------------------
(* Responses                                                                *)

\* new Response(body, {status}): kind names the body, code / id / authUrl are
\* the JSON-RPC fields of a JSON-RPC body (0, JUndefined, <<>> if it has none).
Response(status, kind, code, id, authUrl) ==
    [status |-> status, kind |-> kind, code |-> code, id |-> id, authUrl |-> authUrl]

NoResponse == Response(0, "none", 0, JUndefined, <<>>)

----------------------------------------------------------------------------
(* handleDirectJsonRpc (src/src/index.ts 832-1131)                          *)

\* `https://${host}/authorize` with host = request.headers.get('host') ||
\* env.WORKER_DOMAIN, as the parts of the template string.
AuthUrl(r) ==
    LET host == IF Truthy(r.host) THEN r.host.s ELSE WORKER_DOMAIN
    IN  <<"https://", host, "/authorize">>

\* The switch over message.method inside the handshake branch.
HandshakeResponse(message) ==
    CASE message.method.s = "initialize" ->
            Response(200, "initialize-result", 0, message.id, <<>>)
      [] message.method.s = "list_tools" ->
            Response(200, "tools-result-short", 0, message.id, <<>>)
      [] message.method.s = "tools/list" ->
            Response(200, "tools-result", 0, message.id, <<>>)
      [] message.method.s = "resources/list" ->
            Response(200, "resources-result", 0, message.id, <<>>)
      [] message.method.s = "prompts/list" ->
            Response(200, "prompts-result", 0, message.id, <<>>)
      [] message.method.s \in {"initialized", "notifications/initialized",
                               "notifications/cancelled"} ->
            Response(200, "empty", 0, JUndefined, <<>>)
      [] OTHER ->
            Response(404, "jsonrpc-error", METHOD_NOT_FOUND, message.id, <<>>)

NonHandshakeResponse_NoAuthBranch(r, message) ==
    Response(404, "jsonrpc-error", METHOD_NOT_FOUND, message.id, <<>>)

NonHandshakeResponse_AlwaysAuth(r, message) ==
    Response(401, "jsonrpc-error", AUTH_REQUIRED, message.id, AuthUrl(r))

\* What follows the handshake branch: tools/call is answered with the
\* authentication-required error, every other method with "not supported".
NonHandshakeResponse(r, message) ==
    IF message.method = JStr("tools/call")
    THEN Response(401, "jsonrpc-error", AUTH_REQUIRED, message.id, AuthUrl(r))
    ELSE Response(404, "jsonrpc-error", METHOD_NOT_FOUND, message.id, <<>>)

\* The catch block: JSON.parse threw on the text, or message.method threw
\* because the text parsed to null.
ParseErrorResponse == Response(400, "jsonrpc-error", PARSE_ERROR, JNull, <<>>)

handleDirectJsonRpc_NoMethodCheck(r) ==
    LET message == r.body
    IN  IF message.kind \in {"unparsable", "null"} THEN ParseErrorResponse
        ELSE IF message.method.t = "string" /\ message.method.s \in handshakeMethods
        THEN HandshakeResponse(message)
        ELSE NonHandshakeResponse(r, message)

handleDirectJsonRpc_AuthFirst(r) ==
    LET message == r.body
    IN  IF message.kind \in {"unparsable", "null"} THEN ParseErrorResponse
        ELSE IF ~Truthy(message.method)
        THEN Response(400, "jsonrpc-error", INVALID_REQUEST,
                      IF Truthy(message.id) THEN message.id ELSE JNull, <<>>)
        ELSE IF ~Truthy(r.authorization)
        THEN Response(401, "jsonrpc-error", AUTH_REQUIRED, message.id, AuthUrl(r))
        ELSE IF message.method.t = "string" /\ message.method.s \in handshakeMethods
        THEN HandshakeResponse(message)
        ELSE NonHandshakeResponse(r, message)

handleDirectJsonRpc(r) ==
    LET message == r.body
    IN  IF message.kind \in {"unparsable", "null"} THEN ParseErrorResponse
        ELSE IF ~Truthy(message.method)
        THEN Response(400, "jsonrpc-error", INVALID_REQUEST,
                      IF Truthy(message.id) THEN message.id ELSE JNull, <<>>)
        ELSE IF message.method.t = "string" /\ message.method.s \in handshakeMethods
        THEN HandshakeResponse(message)
        ELSE NonHandshakeResponse(r, message)

----------------------------------------------------------------------------
(* MicrosoftMCPAgent.fetch (src/src/utils.ts 638-708)                       *)

\* The agent's answer to a request carrying X-MCP-Mode and X-WebSocket-Session.
\* super.fetch is the agents library: its answer is left open ("super-fetch").
AgentFetch(r, mcpMode, webSocketSession, pairThrows) ==
    IF /\ mcpMode = "websocket" /\ webSocketSession # ""
       /\ r.upgrade.t = "string" /\ ToLowerCase(r.upgrade.s) = "websocket"
       /\ Truthy(r.wsKey)
    THEN IF pairThrows
         THEN Response(500, "text-websocket-processing-error", 0, JUndefined, <<>>)
         ELSE Response(101, "websocket", 0, JUndefined, <<>>)
    ELSE IF mcpMode \in {"handshake", "other"}
    THEN Response(0, "super-fetch-props-cleared", 0, JUndefined, <<>>)
    ELSE Response(0, "super-fetch", 0, JUndefined, <<>>)

----------------------------------------------------------------------------
(* handleHybridMcp (src/src/index.ts 118-170)                               *)

IsWebSocketUpgrade_UpgradeOnly(r) ==
    Truthy(r.upgrade) /\ ToLowerCase(r.upgrade.s) = "websocket"

\* The condition of the first branch: Upgrade: websocket in any letter case,
\* or a Sec-WebSocket-Key together with a Sec-WebSocket-Version.
IsWebSocketUpgrade(r) ==
    \/ Truthy(r.upgrade) /\ ToLowerCase(r.upgrade.s) = "websocket"
    \/ Truthy(r.wsKey) /\ Truthy(r.wsVersion)

Routed(rt, response, fwd) == [route |-> rt, response |-> response, forwarded |-> fwd]

handleHybridMcp_Get405(r, fault) ==
    IF IsWebSocketUpgrade(r)
    THEN IF fault = "stub"
         THEN Routed("websocket",
                     Response(500, "text-websocket-upgrade-failed", 0, JUndefined, <<>>),
                     NoRequest)
         ELSE Routed("websocket", AgentFetch(r, "websocket", "uuid", fault = "pair"),
                     NoRequest)
    ELSE IF r.method = "GET" /\ Truthy(r.accept) /\ IncludesEventStream(r.accept.s)
    THEN Routed("sse", Response(200, "event-stream", 0, JUndefined, <<>>), NoRequest)
    ELSE IF r.method = "POST"
    THEN Routed("jsonrpc", handleDirectJsonRpc(r), NoRequest)
    ELSE Routed("none", Response(405, "text-unsupported-method", 0, JUndefined, <<>>),
                NoRequest)

\* fault = "stub": obtaining the Durable Object stub threw (the try block's
\* catch); fault = "pair": the agent's WebSocketPair / accept threw.
handleHybridMcp(r, fault) ==
    IF IsWebSocketUpgrade(r)
    THEN IF fault = "stub"
         THEN Routed("websocket",
                     Response(500, "text-websocket-upgrade-failed", 0, JUndefined, <<>>),
                     NoRequest)
         ELSE Routed("websocket", AgentFetch(r, "websocket", "uuid", fault = "pair"),
                     NoRequest)
    ELSE IF r.method = "GET"
    THEN IF Truthy(r.accept) /\ IncludesEventStream(r.accept.s)
         THEN Routed("sse", Response(200, "event-stream", 0, JUndefined, <<>>), NoRequest)
         ELSE Routed("none", Response(400, "text-get-needs-sse-or-websocket", 0,
                                      JUndefined, <<>>), NoRequest)
    ELSE IF r.method = "POST"
    THEN Routed("jsonrpc", handleDirectJsonRpc(r), NoRequest)
    ELSE Routed("none", Response(405, "text-unsupported-method", 0, JUndefined, <<>>),
                NoRequest)

----------------------------------------------------------------------------
(* unifiedHandler.fetch (src/src/index.ts 651-725)                          *)

\* url.pathname === '/sse' || url.pathname.startsWith('/sse/'), on the path's
\* segments.
IsMcpPath(path) == path = <<"sse">> \/ (Len(path) >= 2 /\ path[1] = "sse")

\* Route 5 hands the request, unchanged, to createOAuthProvider(env).fetch; the
\* provider's own answer is left open.
unifiedHandler(r, fault) ==
    IF IsMcpPath(r.path) THEN handleHybridMcp(r, fault)
    ELSE IF r.path = <<"health">>
    THEN Routed("health", Response(200, "json-health", 0, JUndefined, <<>>), NoRequest)
    ELSE IF r.path = <<>> \/ r.path = <<"info">>
    THEN Routed("info", Response(200, "json-info", 0, JUndefined, <<>>), NoRequest)
    ELSE IF r.path = <<".well-known", "oauth-authorization-server">>
    THEN Routed("metadata", Response(200, "json-metadata", 0, JUndefined, <<>>), NoRequest)
    ELSE Routed("oauth", Response(0, "oauth-provider", 0, JUndefined, <<>>), r)

----------------------------------------------------------------------------
(* handleOAuthMetadata (src/src/index.ts 728-764) and the session of a      *)
(* WebSocket upgrade (src/src/index.ts 132-147)                             *)

\* new URL(request.url): protocol and host.
Urls == [protocol : {"https:", "http:"},
         host : {"mcp.example.com", "worker.example.workers.dev:8787"}]
NoUrl == [protocol |-> "", host |-> ""]
MetadataPath == <<".well-known", "oauth-authorization-server">>
\* The URLs under which request r can arrive; the origin matters to the
\* metadata route only.
RequestUrls(r) ==
    IF r.path = MetadataPath THEN Urls
    ELSE {[protocol |-> "https:", host |-> "mcp.example.com"]}

NoMetadata ==
    [issuer |-> <<>>, authorization_endpoint |-> <<>>, token_endpoint |-> <<>>,
     registration_endpoint |-> <<>>]

handleOAuthMetadata_ConfiguredDomain(url) ==
    [issuer |-> <<"https:", "//", WORKER_DOMAIN>>,
     authorization_endpoint |-> <<"https:", "//", WORKER_DOMAIN, "/authorize">>,
     token_endpoint |-> <<"https:", "//", WORKER_DOMAIN, "/token">>,
     registration_endpoint |-> <<"https:", "//", WORKER_DOMAIN, "/register">>]

\* baseUrl = `${url.protocol}//${url.host}`, the endpoints are baseUrl + path.
handleOAuthMetadata(url) ==
    [issuer |-> <<url.protocol, "//", url.host>>,
     authorization_endpoint |-> <<url.protocol, "//", url.host, "/authorize">>,
     token_endpoint |-> <<url.protocol, "//", url.host, "/token">>,
     registration_endpoint |-> <<url.protocol, "//", url.host, "/register">>]

\* WebSocket upgrades the worker takes.
MaxUpgrades == 2

\* crypto.randomUUID(): the n-th call returns a value no other call returns.
RandomUUID(n) == n

AgentName_Shared(sessionId) == <<"ws-", 0>>

\* idFromName(`ws-${sessionId}`): the instance is the one of that name.
AgentName(sessionId) == <<"ws-", sessionId>>

\* The n-th upgrade: its session id, the agent instance named after it, and
\* whether the request went to that instance (stub.fetch was reached).
WebSocketRouting(n, fault) ==
    [sessionId |-> RandomUUID(n), agent |-> AgentName(RandomUUID(n)),
     routed |-> fault # "stub"]

----------------------------------------------------------------------------
(* The worker as a state machine                                            *)

\* One invocation of the worker's fetch handler on request r.
Fetch(r, fault) ==
    /\ phase = "idle"
    /\ phase' = "handled"
    /\ req' = r
    /\ resp' = unifiedHandler(r, fault).response
    /\ route' = unifiedHandler(r, fault).route
    /\ forwarded' = unifiedHandler(r, fault).forwarded
    /\ reqUrl' \in RequestUrls(r)
    /\ metadata' = IF unifiedHandler(r, fault).route = "metadata"
                   THEN handleOAuthMetadata(reqUrl') ELSE NoMetadata
    /\ IF unifiedHandler(r, fault).route = "websocket"
       THEN /\ Len(wsRouted) < MaxUpgrades
            /\ wsRouted' = Append(wsRouted, WebSocketRouting(Len(wsRouted) + 1, fault))
       ELSE UNCHANGED wsRouted
    /\ UNCHANGED <<issued, staticClientActual, sseVars, resolverVars, bridgeVars, tokenVars, initVars, agentVars>>

\* The response has been sent; nothing of the invocation is kept.
Deliver ==
    /\ phase = "handled"
    /\ phase' = "idle"
    /\ req' = NoRequest
    /\ resp' = NoResponse
    /\ route' = "none"
    /\ forwarded' = NoRequest
    /\ reqUrl' = NoUrl
    /\ metadata' = NoMetadata
    /\ UNCHANGED <<issued, staticClientActual, wsRouted, sseVars, resolverVars, bridgeVars,
                   tokenVars, initVars, agentVars>>

\* The downstream OAuth flow completes for a caller: the provider issues the
\* access token t, bound to the props built by tokenExchangeCallback.
IssueToken(t) ==
    /\ phase = "idle"
    /\ t \notin issued
    /\ issued' = issued \cup {t}
    /\ UNCHANGED <<phase, req, resp, route, forwarded, staticClientActual, reqUrl, metadata,
                   wsRouted, sseVars, resolverVars, bridgeVars, tokenVars, initVars, agentVars>>

InitDispatch ==
    /\ phase = "idle"
    /\ req = NoRequest
    /\ resp = NoResponse
    /\ route = "none"
    /\ forwarded = NoRequest
    /\ issued = {}
    /\ staticClientActual = JNull
    /\ reqUrl = NoUrl
    /\ metadata = NoMetadata
    /\ wsRouted = <<>>

InitSSE ==
    /\ ssePc = [s \in Streams |-> "none"]
    /\ written = [s \in Streams |-> <<>>]
    /\ closeCalls = [s \in Streams |-> 0]
    /\ pingInterval = [s \in Streams |-> "unset"]
    /\ closeTimer = [s \in Streams |-> "unset"]
    /\ pingsFired = [s \in Streams |-> 0]
    /\ connected = [s \in Streams |-> TRUE]

\* Invocations of the client-id mapping functions that may overlap.
NumCalls == 2
Calls == 1..NumCalls

\* The client_id values the provider's /register endpoint hands out, in order.
GeneratedClientIds == <<"regClient1", "regClient2", "regClient3", "regClient4">>

NoForward == [sent |-> FALSE, clientId |-> JNull]
ForwardWith(id) == [sent |-> TRUE, clientId |-> id]
NoMappingResponse == [status |-> 0, error |-> ""]
MappingResponse(status, error) == [status |-> status, error |-> error]

InitResolver ==
    /\ rPc = [c \in Calls |-> "idle"]
    /\ rKind = [c \in Calls |-> "none"]
    /\ rRequested = [c \in Calls |-> JNull]
    /\ rActual = [c \in Calls |-> JNull]
    /\ rNew = [c \in Calls |-> JNull]
    /\ rAttempts = [c \in Calls |-> 0]
    /\ rForwarded = [c \in Calls |-> NoForward]
    /\ rResp = [c \in Calls |-> NoMappingResponse]
    /\ registeredClients = {}

\* AuthRequest of the OAuth provider: the parsed downstream request.
NoAuthRequest ==
    [clientId |-> JUndefined, redirectUri |-> JUndefined, scope |-> JUndefined,
     state |-> JUndefined, codeChallenge |-> JUndefined]

\* The `state` query parameter of /callback: absent, a string that is not
\* base64 ("raw"), or the base64 of a text ("b64"); the text is not JSON
\* ("invalid"), the JSON null, a JSON primitive, or a JSON object given by its
\* members in order.
StateParam(k, j, pairs) == [k |-> k, j |-> j, pairs |-> pairs]
AbsentState == StateParam("absent", "none", <<>>)

NoLocation ==
    [upstream_url |-> "", client_id |-> "", response_type |-> "", redirect_uri |-> <<>>,
     scope |-> "", state |-> AbsentState, response_mode |-> ""]
BridgeResponse(status, kind, location) ==
    [status |-> status, kind |-> kind, location |-> location]
NoBridgeResponse == BridgeResponse(0, "none", NoLocation)

NoBridgeRequest ==
    [op |-> "none", origin |-> "", info |-> NoAuthRequest, approved |-> FALSE,
     state |-> AbsentState, code |-> JUndefined, fault |-> "none", now |-> ""]

NoUserId == <<>>

NoCompletion ==
    [invoked |-> FALSE, request |-> NoAuthRequest, scope |-> JUndefined,
     clientType |-> JUndefined, microsoftAuthCode |-> JUndefined,
     microsoftRedirectUri |-> <<>>, userId |-> NoUserId]

NoAttempt == [state |-> AbsentState, request |-> NoAuthRequest, clientType |-> JUndefined]

InitBridge ==
    /\ bPhase = "idle"
    /\ bReq = NoBridgeRequest
    /\ bResp = NoBridgeResponse
    /\ bInit = "none"
    /\ completion = NoCompletion
    /\ clientRecord = FALSE
    /\ lastAttempt = NoAttempt
    /\ attemptFailed = FALSE
    /\ attemptCompleted = FALSE
    /\ attemptUserId = NoUserId

\* Calls of tokenExchangeCallback that may overlap.
NumTokenCalls == 2
TokenCalls == 1..NumTokenCalls

\* The props of a grant: what completeAuthorization stored, and the Microsoft
\* tokens tokenExchangeCallback merges in.  An absent member is undefined.
NoProps ==
    [microsoftAuthCode |-> JUndefined, microsoftRedirectUri |-> JUndefined,
     clientType |-> JUndefined, microsoftAccessToken |-> JUndefined,
     microsoftTokenType |-> JUndefined, microsoftScope |-> JUndefined,
     microsoftRefreshToken |-> JUndefined]

NoTokenOptions == [grantType |-> "none", props |-> NoProps]

\* A request to the Microsoft token endpoint.
UpstreamCall(grantType, code, redirectUri, refreshToken) ==
    [grant_type |-> grantType, code |-> code, redirect_uri |-> redirectUri,
     refresh_token |-> refreshToken]

\* What a call of tokenExchangeCallback ends in: the object it returns, or the
\* error it throws.
TokenResult(kind, accessTokenProps, newProps, accessTokenTTL) ==
    [kind |-> kind, accessTokenProps |-> accessTokenProps, newProps |-> newProps,
     accessTokenTTL |-> accessTokenTTL]
NoTokenResult == TokenResult("none", NoProps, NoProps, JUndefined)
TokenThrown == TokenResult("thrown", NoProps, NoProps, JUndefined)
TokenUnchanged == TokenResult("empty", NoProps, NoProps, JUndefined)

AuthorizationCodes == {"msCodeA", "msCodeB"}

InitToken ==
    /\ grantProps = NoProps
    /\ tPc = [i \in TokenCalls |-> "idle"]
    /\ tOptions = [i \in TokenCalls |-> NoTokenOptions]
    /\ tResult = [i \in TokenCalls |-> NoTokenResult]
    /\ tUpstreamCalls = [i \in TokenCalls |-> <<>>]
    /\ tResponses = [i \in TokenCalls |-> <<>>]
    /\ redeemedCodes = {}
    /\ minted = [c \in AuthorizationCodes |-> 0]

\* Executions of initializeMCPClient that may overlap.
NumInits == 2
Inits == 1..NumInits

\* The stored client record; of its fields only registrationDate varies.
NoClientRecord == [exists |-> FALSE, registrationDate |-> ""]
ClientRecord(registrationDate) == [exists |-> TRUE, registrationDate |-> registrationDate]

InitInitClient ==
    /\ icPc = [p \in Inits |-> "idle"]
    /\ icOutcome = [p \in Inits |-> "none"]
    /\ kvClient = NoClientRecord
    /\ kvPuts = 0

\* Requests to one agent instance that may overlap.
NumAgentRequests == 2
AgentRequests == 1..NumAgentRequests

\* this.props: null, or an object whose microsoftAccessToken may be missing.
NullProps == [isNull |-> TRUE, microsoftAccessToken |-> JUndefined]
BoundProps(microsoftAccessToken) ==
    [isNull |-> FALSE, microsoftAccessToken |-> microsoftAccessToken]

NoGraphRequest == [sent |-> FALSE, method |-> "", authorization |-> <<>>]

InitAgent ==
    /\ aProps = NullProps
    /\ aBound = NullProps
    /\ aPc = [k \in AgentRequests |-> "idle"]
    /\ aMode = [k \in AgentRequests |-> "none"]
    /\ aSaved = [k \in AgentRequests |-> NullProps]
    /\ aHandler = [k \in AgentRequests |-> "none"]
    /\ aResult = [k \in AgentRequests |-> "none"]
    /\ aGraph = [k \in AgentRequests |-> NoGraphRequest]

Init == InitDispatch /\ InitSSE /\ InitResolver /\ InitBridge /\ InitToken /\ InitInitClient
        /\ InitAgent

Next ==
    \/ \E r \in Requests, fault \in Faults : Fetch(r, fault)
    \/ Deliver
    \/ \E t \in Tokens : IssueToken(t)

Spec == Init /\ [][Next]_vars

----------------------------------------------------------------------------
(* handleSSEMcp / handleMCPConnection (src/src/index.ts 425-541)            *)

\* writer.write resolves while the client reads the stream and the writer has
\* not been closed; otherwise it rejects.
WriteSucceeds(s) == connected[s] /\ closeCalls[s] = 0

\* The next run of the interval callback is due no later than the close timer.
PingDueByTimeout(s) == (pingsFired[s] + 1) * PING_INTERVAL_MS <= SSE_TIMEOUT_MS
\* No run of the interval callback is due before the close timer.
TimeoutDue(s) ==
    pingInterval[s] = "active" => (pingsFired[s] + 1) * PING_INTERVAL_MS >= SSE_TIMEOUT_MS

handleSSEMcp_IntervalFirst(s) ==
    /\ ssePc[s] = "none"
    /\ ssePc' = [ssePc EXCEPT ![s] = "delay"]
    /\ pingInterval' = [pingInterval EXCEPT ![s] = "active"]
    /\ UNCHANGED <<written, closeCalls, closeTimer, pingsFired, connected, dispatchVars, resolverVars, bridgeVars, tokenVars, initVars, agentVars>>

\* GET with Accept: text/event-stream: the response is returned with the
\* readable side, handleMCPConnection starts and waits its 100 ms.
handleSSEMcp(s) ==
    /\ ssePc[s] = "none"
    /\ ssePc' = [ssePc EXCEPT ![s] = "delay"]
    /\ UNCHANGED <<written, closeCalls, pingInterval, closeTimer, pingsFired, connected,
                   dispatchVars, resolverVars, bridgeVars, tokenVars, initVars, agentVars>>

\* await writer.write(serverInfo); a rejection lands in the catch block, which
\* closes the writer.
SendServerInfo(s) ==
    /\ ssePc[s] = "delay"
    /\ IF WriteSucceeds(s)
       THEN /\ written' = [written EXCEPT ![s] = Append(@, "initialize")]
            /\ ssePc' = [ssePc EXCEPT ![s] = "sentServerInfo"]
            /\ UNCHANGED closeCalls
       ELSE /\ closeCalls' = [closeCalls EXCEPT ![s] = @ + 1]
            /\ ssePc' = [ssePc EXCEPT ![s] = "failed"]
            /\ UNCHANGED written
    /\ UNCHANGED <<pingInterval, closeTimer, pingsFired, connected, dispatchVars, resolverVars, bridgeVars, tokenVars, initVars, agentVars>>

\* await writer.write(toolsList), then setInterval and setTimeout are armed.
SendToolsList(s) ==
    /\ ssePc[s] = "sentServerInfo"
    /\ IF WriteSucceeds(s)
       THEN /\ written' = [written EXCEPT ![s] = Append(@, "tools/list")]
            /\ ssePc' = [ssePc EXCEPT ![s] = "streaming"]
            /\ pingInterval' = [pingInterval EXCEPT ![s] = "active"]
            /\ closeTimer' = [closeTimer EXCEPT ![s] = "armed"]
            /\ UNCHANGED closeCalls
       ELSE /\ closeCalls' = [closeCalls EXCEPT ![s] = @ + 1]
            /\ ssePc' = [ssePc EXCEPT ![s] = "failed"]
            /\ UNCHANGED <<written, pingInterval, closeTimer>>
    /\ UNCHANGED <<pingsFired, connected, dispatchVars, resolverVars, bridgeVars, tokenVars, initVars, agentVars>>

\* One run of the setInterval callback, every 30 s.
PingTick(s) ==
    /\ pingInterval[s] = "active"
    /\ PingDueByTimeout(s)
    /\ pingsFired' = [pingsFired EXCEPT ![s] = @ + 1]
    /\ IF WriteSucceeds(s)
       THEN /\ written' = [written EXCEPT ![s] = Append(@, "ping")]
            /\ UNCHANGED <<pingInterval, closeCalls>>
       ELSE /\ pingInterval' = [pingInterval EXCEPT ![s] = "cleared"]
            /\ closeCalls' = [closeCalls EXCEPT ![s] = @ + 1]
            /\ UNCHANGED written
    /\ UNCHANGED <<ssePc, closeTimer, connected, dispatchVars, resolverVars, bridgeVars, tokenVars, initVars, agentVars>>

CloseTimeout_NoClose(s) ==
    /\ closeTimer[s] = "armed"
    /\ TimeoutDue(s)
    /\ closeTimer' = [closeTimer EXCEPT ![s] = "fired"]
    /\ pingInterval' = [pingInterval EXCEPT ![s] = "cleared"]
    /\ UNCHANGED <<ssePc, written, closeCalls, pingsFired, connected, dispatchVars, resolverVars, bridgeVars, tokenVars, initVars, agentVars>>

\* The setTimeout callback, 5 minutes after the handshake.
CloseTimeout(s) ==
    /\ closeTimer[s] = "armed"
    /\ TimeoutDue(s)
    /\ closeTimer' = [closeTimer EXCEPT ![s] = "fired"]
    /\ pingInterval' = [pingInterval EXCEPT ![s] = "cleared"]
    /\ closeCalls' = [closeCalls EXCEPT ![s] = @ + 1]
    /\ UNCHANGED <<ssePc, written, pingsFired, connected, dispatchVars, resolverVars, bridgeVars, tokenVars, initVars, agentVars>>

\* The client goes away: from now on writes to the stream reject.
ClientDisconnect(s) ==
    /\ ssePc[s] # "none"
    /\ connected[s]
    /\ closeCalls[s] = 0
    /\ connected' = [connected EXCEPT ![s] = FALSE]
    /\ UNCHANGED <<ssePc, written, closeCalls, pingInterval, closeTimer, pingsFired,
                   dispatchVars, resolverVars, bridgeVars, tokenVars, initVars, agentVars>>

\* The steps the event loop runs for stream s.
SSEStep(s) == SendServerInfo(s) \/ SendToolsList(s) \/ PingTick(s) \/ CloseTimeout(s)

NextSSE ==
    \/ \E s \in Streams : handleSSEMcp(s)
    \/ \E s \in Streams : SendServerInfo(s)
    \/ \E s \in Streams : SendToolsList(s)
    \/ \E s \in Streams : PingTick(s)
    \/ \E s \in Streams : CloseTimeout(s)
    \/ \E s \in Streams : ClientDisconnect(s)

SpecSSE == Init /\ [][NextSSE]_vars

\* Timers and promise continuations that are due do run.
SpecSSEFair == SpecSSE /\ \A s \in Streams : WF_vars(SSEStep(s))

----------------------------------------------------------------------------
(* handleAuthorizeWithClientMapping / handleTokenWithClientMapping          *)
(* (src/src/index.ts 217-422).  Each call runs up to its next await in one  *)
(* step; calls overlap freely.  The functions are modelled as called        *)
(* directly: unifiedHandler itself does not call them.                      *)

\* client_id values a caller may send: none, empty, the well-known id, an id
\* of its own, or an id the provider has registered.
RequestedClientIds ==
    {JNull, JStr(""), JStr(MCP_CLIENT_ID), JStr("dynClient1")}
        \cup {JStr(id) : id \in registeredClients}

\* What createOAuthProvider(env).fetch(registerRequest) does: answers 201 with a
\* new client_id, answers another status, or throws.
RegisterOutcomes == {"201", "400", "throws"}

\* The id the next successful registration returns.
NextGeneratedId == GeneratedClientIds[Cardinality(registeredClients) + 1]

\* The call's Response, and where it stands, once it has returned.
Returned(c, response, fwd) ==
    /\ rPc' = [rPc EXCEPT ![c] = "done"]
    /\ rResp' = [rResp EXCEPT ![c] = response]
    /\ rForwarded' = [rForwarded EXCEPT ![c] = fwd]

\* handleAuthorizeWithClientMapping from its entry to the answer of
\* CONFIG_KV.get: the client_id check, the fast path and the mapping to an
\* alias that exists; with no alias the call goes on to register.
AuthorizeBegin(c, requestedClientId) ==
    /\ rPc[c] = "idle"
    /\ rKind' = [rKind EXCEPT ![c] = "authorize"]
    /\ rRequested' = [rRequested EXCEPT ![c] = requestedClientId]
    /\ IF ~Truthy(requestedClientId)
       THEN /\ Returned(c, MappingResponse(400, "invalid_request"), NoForward)
            /\ UNCHANGED rActual
       ELSE /\ rActual' = [rActual EXCEPT ![c] = staticClientActual]
            /\ IF requestedClientId = staticClientActual
               THEN Returned(c, NoMappingResponse, ForwardWith(requestedClientId))
               ELSE IF ~Truthy(staticClientActual)
               THEN /\ rPc' = [rPc EXCEPT ![c] = "register"]
                    /\ UNCHANGED <<rResp, rForwarded>>
               ELSE Returned(c, NoMappingResponse, ForwardWith(staticClientActual))
    /\ UNCHANGED <<rNew, rAttempts, registeredClients, staticClientActual>>
    /\ UNCHANGED <<phase, req, resp, route, forwarded, issued, reqUrl, metadata, wsRouted,
                 sseVars, bridgeVars, tokenVars, initVars, agentVars>>

AuthorizeRegister_ForwardsOnFailure(c, outcome) ==
    /\ rPc[c] = "register"
    /\ rAttempts' = [rAttempts EXCEPT ![c] = @ + 1]
    /\ IF outcome = "201"
       THEN /\ Cardinality(registeredClients) < Len(GeneratedClientIds)
            /\ registeredClients' = registeredClients \cup {NextGeneratedId}
            /\ rNew' = [rNew EXCEPT ![c] = JStr(NextGeneratedId)]
            /\ rPc' = [rPc EXCEPT ![c] = "put"]
            /\ UNCHANGED <<rResp, rForwarded>>
       ELSE /\ Returned(c, NoMappingResponse, ForwardWith(rRequested[c]))
            /\ UNCHANGED <<registeredClients, rNew>>
    /\ UNCHANGED <<rKind, rRequested, rActual, staticClientActual>>
    /\ UNCHANGED <<phase, req, resp, route, forwarded, issued, reqUrl, metadata, wsRouted,
                 sseVars, bridgeVars, tokenVars, initVars, agentVars>>

\* The POST /register request and the test of registerResponse.status.
AuthorizeRegister(c, outcome) ==
    /\ rPc[c] = "register"
    /\ rAttempts' = [rAttempts EXCEPT ![c] = @ + 1]
    /\ IF outcome = "201"
       THEN /\ Cardinality(registeredClients) < Len(GeneratedClientIds)
            /\ registeredClients' = registeredClients \cup {NextGeneratedId}
            /\ rNew' = [rNew EXCEPT ![c] = JStr(NextGeneratedId)]
            /\ rPc' = [rPc EXCEPT ![c] = "put"]
            /\ UNCHANGED <<rResp, rForwarded>>
       ELSE /\ Returned(c, MappingResponse(500, "server_error"), NoForward)
            /\ UNCHANGED <<registeredClients, rNew>>
    /\ UNCHANGED <<rKind, rRequested, rActual, staticClientActual>>
    /\ UNCHANGED <<phase, req, resp, route, forwarded, issued, reqUrl, metadata, wsRouted,
                 sseVars, bridgeVars, tokenVars, initVars, agentVars>>

AuthorizeStoreAlias_ForwardsRequested(c) ==
    /\ rPc[c] = "put"
    /\ staticClientActual' = rNew[c]
    /\ Returned(c, NoMappingResponse, ForwardWith(rRequested[c]))
    /\ UNCHANGED <<rKind, rRequested, rActual, rNew, rAttempts, registeredClients>>
    /\ UNCHANGED <<phase, req, resp, route, forwarded, issued, reqUrl, metadata, wsRouted,
                 sseVars, bridgeVars, tokenVars, initVars, agentVars>>

AuthorizeStoreAlias_NoPut(c) ==
    /\ rPc[c] = "put"
    /\ Returned(c, NoMappingResponse, ForwardWith(rNew[c]))
    /\ UNCHANGED <<rKind, rRequested, rActual, rNew, rAttempts, registeredClients,
                   staticClientActual>>
    /\ UNCHANGED <<phase, req, resp, route, forwarded, issued, reqUrl, metadata, wsRouted,
                 sseVars, bridgeVars, tokenVars, initVars, agentVars>>

AuthorizeStoreAlias_StoresRequested(c) ==
    /\ rPc[c] = "put"
    /\ staticClientActual' = rRequested[c]
    /\ Returned(c, NoMappingResponse, ForwardWith(rNew[c]))
    /\ UNCHANGED <<rKind, rRequested, rActual, rNew, rAttempts, registeredClients>>
    /\ UNCHANGED <<phase, req, resp, route, forwarded, issued, reqUrl, metadata, wsRouted,
                 sseVars, bridgeVars, tokenVars, initVars, agentVars>>

\* CONFIG_KV.put of the new id, then the mapped request goes to the provider.
AuthorizeStoreAlias(c) ==
    /\ rPc[c] = "put"
    /\ staticClientActual' = rNew[c]
    /\ Returned(c, NoMappingResponse, ForwardWith(rNew[c]))
    /\ UNCHANGED <<rKind, rRequested, rActual, rNew, rAttempts, registeredClients>>
    /\ UNCHANGED <<phase, req, resp, route, forwarded, issued, reqUrl, metadata, wsRouted,
                 sseVars, bridgeVars, tokenVars, initVars, agentVars>>

\* handleTokenWithClientMapping, whole: its only shared access is one
\* CONFIG_KV.get.  formOk is whether request.clone().formData() resolves.
handleTokenWithClientMapping(c, requestedClientId, formOk) ==
    /\ rPc[c] = "idle"
    /\ rKind' = [rKind EXCEPT ![c] = "token"]
    /\ rRequested' = [rRequested EXCEPT ![c] = requestedClientId]
    /\ IF ~formOk
       THEN /\ Returned(c, MappingResponse(500, "server_error"), NoForward)
            /\ UNCHANGED rActual
       ELSE IF ~Truthy(requestedClientId)
       THEN /\ Returned(c, NoMappingResponse, ForwardWith(JStr(MCP_CLIENT_ID)))
            /\ UNCHANGED rActual
       ELSE /\ rActual' = [rActual EXCEPT ![c] = staticClientActual]
            /\ IF requestedClientId = staticClientActual
               THEN Returned(c, NoMappingResponse, ForwardWith(requestedClientId))
               ELSE IF Truthy(staticClientActual)
               THEN Returned(c, NoMappingResponse, ForwardWith(staticClientActual))
               ELSE Returned(c, NoMappingResponse, ForwardWith(requestedClientId))
    /\ UNCHANGED <<rNew, rAttempts, registeredClients, staticClientActual>>
    /\ UNCHANGED <<phase, req, resp, route, forwarded, issued, reqUrl, metadata, wsRouted,
                 sseVars, bridgeVars, tokenVars, initVars, agentVars>>

NextResolver ==
    \/ \E c \in Calls, id \in RequestedClientIds : AuthorizeBegin(c, id)
    \/ \E c \in Calls, outcome \in RegisterOutcomes : AuthorizeRegister(c, outcome)
    \/ \E c \in Calls : AuthorizeStoreAlias(c)
    \/ \E c \in Calls, id \in RequestedClientIds, formOk \in BOOLEAN :
           handleTokenWithClientMapping(c, id, formOk)

SpecResolver == Init /\ [][NextResolver]_vars

----------------------------------------------------------------------------
(* MicrosoftHandler: /authorize and /callback (src/src/utils.ts 5-21,        *)
(* 80-189) and initializeMCPClient (src/src/index.ts 179-214).              *)

MICROSOFT_CLIENT_ID == "ms-app-client-id"
MICROSOFT_AUTHORIZE_URL == "https://login.microsoftonline.com/{tenant}/oauth2/v2.0/authorize"
MICROSOFT_GRAPH_SCOPE ==
    "User.Read Mail.Read Mail.ReadWrite Mail.Send Calendars.Read Calendars.ReadWrite Contacts.ReadWrite OnlineMeetings.ReadWrite ChannelMessage.Send Team.ReadBasic.All offline_access"

Origins == {"https://worker.example.workers.dev", "https://mcp.example.com"}

\* A string with a character above U+00FF, on which btoa throws.
NonLatin1Strings == {"st-U+65E5"}
\* redirectUri?.includes('claude.ai')
IncludesClaudeAi(v) == v.t = "string" /\ v.s \in {"https://claude.ai/api/mcp/auth_callback"}

\* What parseAuthRequest / parseRedirectApproval hand to the routes.
AuthRequests ==
    [clientId : {JStr(""), JStr(MCP_CLIENT_ID)},
     redirectUri : {JStr("https://claude.ai/api/mcp/auth_callback"),
                    JStr("http://localhost:3334/oauth/callback")},
     scope : {JStr("User.Read"), JStr("Mail.Read offline_access")},
     state : {JStr("xyz"), JStr("st-U+65E5")},
     codeChallenge : {JUndefined, JStr("E9Melhoa2Ow")}]

AuthRequestFields == <<"clientId", "redirectUri", "scope", "state", "codeChallenge">>

IsRequiredMember(pair) == pair[2] # JUndefined /\ pair[1] # "codeChallenge"
JsonStringify_DropsCodeChallenge(a, clientType) ==
    SelectSeq([i \in 1..Len(AuthRequestFields) |->
                  <<AuthRequestFields[i], a[AuthRequestFields[i]]>>]
                  \o << <<"clientType", clientType>> >>,
              IsRequiredMember)

\* JSON.stringify({ ...oauthReqInfo, clientType }): the members in property
\* order, without those whose value is undefined.
IsDefinedMember(pair) == pair[2] # JUndefined
JsonStringify(a, clientType) ==
    SelectSeq([i \in 1..Len(AuthRequestFields) |->
                  <<AuthRequestFields[i], a[AuthRequestFields[i]]>>]
                  \o << <<"clientType", clientType>> >>,
              IsDefinedMember)

\* btoa throws InvalidCharacterError on a character outside Latin-1.
BtoaThrows(pairs) == \E i \in 1..Len(pairs) : pairs[i][2].s \in NonLatin1Strings
Btoa(pairs) == StateParam("b64", "object", pairs)

\* atob(c.req.query('state') as string) throws when the parameter is absent
\* (atob("undefined")) or is not base64.
AtobThrows(sp) == sp.k # "b64"
\* JSON.parse throws on a text that is not JSON.
JsonParseThrows(sp) == sp.j = "invalid"
\* Property read on the parsed value: the last member of that name, undefined
\* when there is none or when the value is a primitive.
Member(sp, name) ==
    LET hits == {i \in 1..Len(sp.pairs) : sp.pairs[i][1] = name}
    IN IF sp.j # "object" \/ hits = {} THEN JUndefined
       ELSE sp.pairs[CHOOSE i \in hits : \A j \in hits : j <= i][2]

getUpstreamAuthorizeUrl_NoResponseMode(params) ==
    [upstream_url |-> params.upstream_url, client_id |-> params.client_id,
     response_type |-> "code", redirect_uri |-> params.redirect_uri,
     scope |-> params.scope, state |-> params.state, response_mode |-> ""]

getUpstreamAuthorizeUrl(params) ==
    [upstream_url |-> params.upstream_url, client_id |-> params.client_id,
     response_type |-> "code", redirect_uri |-> params.redirect_uri,
     scope |-> params.scope, state |-> params.state, response_mode |-> "query"]

\* An exception that leaves the route: the framework answers 500.
Thrown == BridgeResponse(500, "thrown", NoLocation)

redirectToMicrosoft(origin, oauthReqInfo) ==
    LET clientType == IF IncludesClaudeAi(oauthReqInfo.redirectUri)
                      THEN JStr("claude-desktop") ELSE JStr("mcp-remote")
        text == JsonStringify(oauthReqInfo, clientType)
    IN IF BtoaThrows(text)
       THEN [response |-> Thrown, attempt |-> NoAttempt]
       ELSE [response |->
                 BridgeResponse(302, "redirect",
                     getUpstreamAuthorizeUrl(
                         [client_id |-> MICROSOFT_CLIENT_ID,
                          redirect_uri |-> <<origin, "/callback">>,
                          scope |-> MICROSOFT_GRAPH_SCOPE,
                          state |-> Btoa(text),
                          upstream_url |-> MICROSOFT_AUTHORIZE_URL])),
             attempt |-> [state |-> Btoa(text), request |-> oauthReqInfo,
                          clientType |-> clientType]]

initializeMCPClient_Skipped(record, fault) == [outcome |-> "none", record |-> record]

\* initializeMCPClient: OAUTH_KV.get, then put when the record is missing; a
\* failing store is logged and swallowed.
initializeMCPClient(record, fault) ==
    IF fault = "kvThrows" THEN [outcome |-> "failed", record |-> record]
    ELSE IF record THEN [outcome |-> "exists", record |-> TRUE]
    ELSE [outcome |-> "created", record |-> TRUE]

\* What a route hands back: its Response, what initializeMCPClient did, the
\* store's client record, the state value it emitted, and the argument of
\* completeAuthorization.
Handled(response, init, record, attempt, done) ==
    [response |-> response, init |-> init, record |-> record, attempt |-> attempt,
     completion |-> done]

\* app.get('/authorize')
authorizeGet(r, record) ==
    LET init == initializeMCPClient(record, r.fault)
        redirect == redirectToMicrosoft(r.origin, r.info)
    IN IF ~Truthy(r.info.clientId)
       THEN Handled(BridgeResponse(400, "invalid-request", NoLocation),
                    init.outcome, init.record, NoAttempt, NoCompletion)
       ELSE IF r.approved
       THEN Handled(redirect.response, init.outcome, init.record, redirect.attempt,
                    NoCompletion)
       ELSE Handled(BridgeResponse(200, "approval-dialog", NoLocation),
                    init.outcome, init.record, NoAttempt, NoCompletion)

authorizePost_InitializesFirst(r, record) ==
    LET redirect == redirectToMicrosoft(r.origin, r.info)
    IN IF r.info = NoAuthRequest
       THEN Handled(BridgeResponse(400, "invalid-request", NoLocation),
                    "created", TRUE, NoAttempt, NoCompletion)
       ELSE Handled(redirect.response, "none", record, redirect.attempt, NoCompletion)

\* app.post('/authorize')
authorizePost(r, record) ==
    LET redirect == redirectToMicrosoft(r.origin, r.info)
    IN IF r.info = NoAuthRequest
       THEN Handled(BridgeResponse(400, "invalid-request", NoLocation),
                    "none", record, NoAttempt, NoCompletion)
       ELSE Handled(redirect.response, "none", record, redirect.attempt, NoCompletion)

callback_NoCodeCheck(r, record) ==
    LET sp == r.state
        clientType == IF Member(sp, "clientType") = JUndefined
                      THEN JStr("mcp-remote") ELSE Member(sp, "clientType")
        oauthReqInfo == [clientId |-> Member(sp, "clientId"),
                         redirectUri |-> Member(sp, "redirectUri"),
                         scope |-> Member(sp, "scope"),
                         state |-> Member(sp, "state"),
                         codeChallenge |-> Member(sp, "codeChallenge")]
        done == [invoked |-> TRUE, request |-> oauthReqInfo, scope |-> oauthReqInfo.scope,
                 clientType |-> clientType, microsoftAuthCode |-> r.code,
                 microsoftRedirectUri |-> <<r.origin, "/callback">>,
                 userId |-> <<"microsoft_", r.now>>]
    IN IF AtobThrows(sp) \/ JsonParseThrows(sp) \/ sp.j = "null"
       THEN Handled(Thrown, "none", record, NoAttempt, NoCompletion)
       ELSE IF ~Truthy(oauthReqInfo.clientId)
       THEN Handled(BridgeResponse(400, "invalid-state", NoLocation),
                    "none", record, NoAttempt, NoCompletion)
       ELSE Handled(BridgeResponse(302, "client-redirect", NoLocation),
                    "none", record, NoAttempt, done)

callback_KnownClientOnly(r, record) ==
    LET sp == r.state
        clientType == IF Member(sp, "clientType") = JUndefined
                      THEN JStr("mcp-remote") ELSE Member(sp, "clientType")
        oauthReqInfo == [clientId |-> Member(sp, "clientId"),
                         redirectUri |-> Member(sp, "redirectUri"),
                         scope |-> Member(sp, "scope"),
                         state |-> Member(sp, "state"),
                         codeChallenge |-> Member(sp, "codeChallenge")]
        done == [invoked |-> TRUE, request |-> oauthReqInfo, scope |-> oauthReqInfo.scope,
                 clientType |-> clientType, microsoftAuthCode |-> r.code,
                 microsoftRedirectUri |-> <<r.origin, "/callback">>,
                 userId |-> <<"microsoft_", r.now>>]
    IN IF AtobThrows(sp) \/ JsonParseThrows(sp) \/ sp.j = "null"
       THEN Handled(Thrown, "none", record, NoAttempt, NoCompletion)
       ELSE IF oauthReqInfo.clientId # JStr(MCP_CLIENT_ID)
       THEN Handled(BridgeResponse(400, "invalid-state", NoLocation),
                    "none", record, NoAttempt, NoCompletion)
       ELSE IF ~Truthy(r.code)
       THEN Handled(BridgeResponse(400, "no-code", NoLocation),
                    "none", record, NoAttempt, NoCompletion)
       ELSE IF r.fault = "completeThrows"
       THEN Handled(Thrown, "none", record, NoAttempt, done)
       ELSE Handled(BridgeResponse(302, "client-redirect", NoLocation),
                    "none", record, NoAttempt, done)

\* app.get('/callback')
callback(r, record) ==
    LET sp == r.state
        clientType == IF Member(sp, "clientType") = JUndefined
                      THEN JStr("mcp-remote") ELSE Member(sp, "clientType")
        oauthReqInfo == [clientId |-> Member(sp, "clientId"),
                         redirectUri |-> Member(sp, "redirectUri"),
                         scope |-> Member(sp, "scope"),
                         state |-> Member(sp, "state"),
                         codeChallenge |-> Member(sp, "codeChallenge")]
        done == [invoked |-> TRUE, request |-> oauthReqInfo, scope |-> oauthReqInfo.scope,
                 clientType |-> clientType, microsoftAuthCode |-> r.code,
                 microsoftRedirectUri |-> <<r.origin, "/callback">>,
                 userId |-> <<"microsoft_", r.now>>]
    IN IF AtobThrows(sp) \/ JsonParseThrows(sp) \/ sp.j = "null"
       THEN Handled(Thrown, "none", record, NoAttempt, NoCompletion)
       ELSE IF ~Truthy(oauthReqInfo.clientId)
       THEN Handled(BridgeResponse(400, "invalid-state", NoLocation),
                    "none", record, NoAttempt, NoCompletion)
       ELSE IF ~Truthy(r.code)
       THEN Handled(BridgeResponse(400, "no-code", NoLocation),
                    "none", record, NoAttempt, NoCompletion)
       ELSE IF r.fault = "completeThrows"
       THEN Handled(Thrown, "none", record, NoAttempt, done)
       ELSE Handled(BridgeResponse(302, "client-redirect", NoLocation),
                    "none", record, NoAttempt, done)

GetAuthorizeRequests ==
    [op : {"GET /authorize"}, origin : Origins, info : AuthRequests, approved : BOOLEAN,
     state : {AbsentState}, code : {JUndefined}, fault : {"none", "kvThrows"}, now : {""}]

PostAuthorizeRequests ==
    [op : {"POST /authorize"}, origin : Origins, info : AuthRequests \cup {NoAuthRequest},
     approved : {FALSE}, state : {AbsentState}, code : {JUndefined}, fault : {"none"},
     now : {""}]

\* state values a caller can make up itself.
ForgedStates ==
    {AbsentState,
     StateParam("raw", "none", <<>>),
     StateParam("b64", "invalid", <<>>),
     StateParam("b64", "null", <<>>),
     StateParam("b64", "primitive", <<>>),
     StateParam("b64", "object", <<>>),
     StateParam("b64", "object", << <<"clientId", JStr("")>> >>),
     StateParam("b64", "object", << <<"clientId", JStr("dynClient1")>> >>),
     StateParam("b64", "object", << <<"clientId", JStr("forgedClient")>>,
                                    <<"redirectUri", JStr("https://attacker.example/cb")>> >>)}

\* Values of Date.now() at two moments.
DateNow == {"1730000000000", "1730000600000"}

\* /callback requests: a made-up state, or the one the last redirect carried.
CallbackRequests ==
    [op : {"GET /callback"}, origin : Origins, info : {NoAuthRequest}, approved : {FALSE},
     state : ForgedStates \cup {lastAttempt.state},
     code : {JUndefined, JStr(""), JStr("msAuthCode1")},
     fault : {"none", "completeThrows"}, now : DateNow]

\* One invocation of a route; h is what the route handed back.
BridgeHandled(r, h) ==
    /\ bPhase = "idle"
    /\ bPhase' = "handled"
    /\ bReq' = r
    /\ bResp' = h.response
    /\ bInit' = h.init
    /\ clientRecord' = h.record
    /\ completion' = h.completion
    /\ UNCHANGED <<dispatchVars, sseVars, resolverVars, tokenVars, initVars, agentVars>>

\* A redirect to Microsoft starts a new attempt, identified by its state value.
\* The same downstream request gives the same state value again; the first
\* userId seen for it is then kept.
NewAttempt(attempt) ==
    IF attempt # NoAttempt
    THEN /\ lastAttempt' = attempt
         /\ attemptFailed' = FALSE
         /\ attemptCompleted' = FALSE
         /\ attemptUserId' = IF attempt.state = lastAttempt.state THEN attemptUserId
                              ELSE NoUserId
    ELSE UNCHANGED <<lastAttempt, attemptFailed, attemptCompleted, attemptUserId>>

GetAuthorize(r) ==
    /\ BridgeHandled(r, authorizeGet(r, clientRecord))
    /\ NewAttempt(authorizeGet(r, clientRecord).attempt)

PostAuthorize(r) ==
    /\ BridgeHandled(r, authorizePost(r, clientRecord))
    /\ NewAttempt(authorizePost(r, clientRecord).attempt)

\* The route keeps nothing; attemptFailed only observes that a callback
\* carrying the attempt's state did not end in the redirect to the client.
GetCallback(r) ==
    /\ BridgeHandled(r, callback(r, clientRecord))
    /\ attemptFailed' =
           IF /\ lastAttempt # NoAttempt
              /\ r.state = lastAttempt.state
              /\ callback(r, clientRecord).response.status # 302
           THEN TRUE ELSE attemptFailed
    /\ attemptCompleted' =
           IF /\ lastAttempt # NoAttempt
              /\ r.state = lastAttempt.state
              /\ callback(r, clientRecord).response.status = 302
           THEN TRUE ELSE attemptCompleted
    /\ attemptUserId' =
           IF /\ lastAttempt # NoAttempt
              /\ r.state = lastAttempt.state
              /\ callback(r, clientRecord).completion.invoked
              /\ attemptUserId = NoUserId
           THEN callback(r, clientRecord).completion.userId ELSE attemptUserId
    /\ UNCHANGED lastAttempt

BridgeDeliver ==
    /\ bPhase = "handled"
    /\ bPhase' = "idle"
    /\ bReq' = NoBridgeRequest
    /\ bResp' = NoBridgeResponse
    /\ bInit' = "none"
    /\ completion' = NoCompletion
    /\ UNCHANGED <<clientRecord, lastAttempt, attemptFailed, attemptCompleted, attemptUserId>>
    /\ UNCHANGED <<dispatchVars, sseVars, resolverVars, tokenVars, initVars, agentVars>>

NextBridge ==
    \/ \E r \in GetAuthorizeRequests : GetAuthorize(r)
    \/ \E r \in PostAuthorizeRequests : PostAuthorize(r)
    \/ \E r \in CallbackRequests : GetCallback(r)
    \/ BridgeDeliver

SpecBridge == Init /\ [][NextBridge]_vars

----------------------------------------------------------------------------
(* tokenExchangeCallback, exchangeMicrosoftTokens, refreshMicrosoftTokens   *)
(* (src/src/index.ts 47-109, 576-646).  options.props are the props the     *)
(* provider keeps on the grant; newProps of a call that returns replace     *)
(* them.                                                                    *)

\* Answers of the Microsoft token endpoint: a failure status, or a token
\* response; refresh_token is optional in it.
MicrosoftResponses ==
    {[ok |-> FALSE, access_token |-> JUndefined, token_type |-> JUndefined,
      expires_in |-> JUndefined, refresh_token |-> JUndefined, scope |-> JUndefined]}
        \cup
    {[ok |-> TRUE, access_token |-> issue.access_token, token_type |-> JStr("Bearer"),
      expires_in |-> issue.expires_in, refresh_token |-> refresh_token,
      scope |-> JStr("User.Read Mail.Read offline_access")] :
         issue \in {[access_token |-> JStr("msAT1"), expires_in |-> JNum("3599")],
                    [access_token |-> JStr("msAT2"), expires_in |-> JNum("7200")]},
         refresh_token \in {JUndefined, JStr(""), JStr("msRT1"), JStr("msRT2")}}

GrantTypes == {"authorization_code", "refresh_token", "client_credentials"}

\* a || b
Or(a, b) == IF Truthy(a) THEN a ELSE b

exchangeMicrosoftTokens_IgnoresStatus(response) == [thrown |-> FALSE, tokens |-> response]

\* exchangeMicrosoftTokens after its fetch: throws unless response.ok.
exchangeMicrosoftTokens(response) == [thrown |-> ~response.ok, tokens |-> response]

\* refreshMicrosoftTokens after its fetch: throws unless response.ok.
refreshMicrosoftTokens(response) == [thrown |-> ~response.ok, tokens |-> response]

AuthorizationCodeGrant_FallbackOnFailure(props, exchanged) ==
    TokenResult("returned",
        [props EXCEPT !.microsoftAccessToken = exchanged.tokens.access_token,
                      !.microsoftTokenType = exchanged.tokens.token_type,
                      !.microsoftScope = exchanged.tokens.scope],
        [props EXCEPT !.microsoftRefreshToken = exchanged.tokens.refresh_token],
        exchanged.tokens.expires_in)

AuthorizationCodeGrant_RefreshPropsKeepAccessToken(props, exchanged) ==
    IF exchanged.thrown THEN TokenThrown
    ELSE TokenResult("returned",
             [props EXCEPT !.microsoftAccessToken = exchanged.tokens.access_token,
                           !.microsoftTokenType = exchanged.tokens.token_type,
                           !.microsoftScope = exchanged.tokens.scope],
             [props EXCEPT !.microsoftAccessToken = exchanged.tokens.access_token,
                           !.microsoftRefreshToken = exchanged.tokens.refresh_token],
             exchanged.tokens.expires_in)

AuthorizationCodeGrant_FixedTTL(props, exchanged) ==
    IF exchanged.thrown THEN TokenThrown
    ELSE TokenResult("returned",
             [props EXCEPT !.microsoftAccessToken = exchanged.tokens.access_token,
                           !.microsoftTokenType = exchanged.tokens.token_type,
                           !.microsoftScope = exchanged.tokens.scope],
             [props EXCEPT !.microsoftRefreshToken = exchanged.tokens.refresh_token],
             JNum("3599"))

\* The authorization_code branch once exchangeMicrosoftTokens has settled.
AuthorizationCodeGrant(props, exchanged) ==
    IF exchanged.thrown THEN TokenThrown
    ELSE TokenResult("returned",
             [props EXCEPT !.microsoftAccessToken = exchanged.tokens.access_token,
                           !.microsoftTokenType = exchanged.tokens.token_type,
                           !.microsoftScope = exchanged.tokens.scope],
             [props EXCEPT !.microsoftRefreshToken = exchanged.tokens.refresh_token],
             exchanged.tokens.expires_in)

RefreshTokenGrant_NoFallback(props, refreshed) ==
    IF refreshed.thrown THEN TokenThrown
    ELSE TokenResult("returned",
             [props EXCEPT !.microsoftAccessToken = refreshed.tokens.access_token,
                           !.microsoftTokenType = refreshed.tokens.token_type,
                           !.microsoftScope = refreshed.tokens.scope],
             [props EXCEPT !.microsoftRefreshToken = refreshed.tokens.refresh_token],
             refreshed.tokens.expires_in)

RefreshTokenGrant_AccessPropsCarryNewRefreshToken(props, refreshed) ==
    IF refreshed.thrown THEN TokenThrown
    ELSE TokenResult("returned",
             [props EXCEPT !.microsoftAccessToken = refreshed.tokens.access_token,
                           !.microsoftTokenType = refreshed.tokens.token_type,
                           !.microsoftScope = refreshed.tokens.scope,
                           !.microsoftRefreshToken =
                               Or(refreshed.tokens.refresh_token, props.microsoftRefreshToken)],
             [props EXCEPT !.microsoftRefreshToken =
                               Or(refreshed.tokens.refresh_token, props.microsoftRefreshToken)],
             refreshed.tokens.expires_in)

\* The refresh_token branch once refreshMicrosoftTokens has settled.
RefreshTokenGrant(props, refreshed) ==
    IF refreshed.thrown THEN TokenThrown
    ELSE TokenResult("returned",
             [props EXCEPT !.microsoftAccessToken = refreshed.tokens.access_token,
                           !.microsoftTokenType = refreshed.tokens.token_type,
                           !.microsoftScope = refreshed.tokens.scope],
             [props EXCEPT !.microsoftRefreshToken =
                               Or(refreshed.tokens.refresh_token, props.microsoftRefreshToken)],
             refreshed.tokens.expires_in)

\* The request the call sends to the Microsoft token endpoint.
UpstreamCallOf(options) ==
    IF options.grantType = "authorization_code"
    THEN UpstreamCall("authorization_code", options.props.microsoftAuthCode,
                      options.props.microsoftRedirectUri, JUndefined)
    ELSE UpstreamCall("refresh_token", JUndefined, JUndefined,
                      options.props.microsoftRefreshToken)

\* Whether a call with these options goes on to the Microsoft endpoint: it
\* throws first when the props lack what the grant type needs, and returns {}
\* for any other grant type.
BeforeUpstream_NoPropsCheck(options) ==
    IF options.grantType \in {"authorization_code", "refresh_token"}
    THEN [proceeds |-> TRUE, result |-> NoTokenResult]
    ELSE [proceeds |-> FALSE, result |-> TokenUnchanged]

BeforeUpstream(options) ==
    IF options.grantType = "authorization_code"
    THEN IF ~Truthy(options.props.microsoftAuthCode)
         THEN [proceeds |-> FALSE, result |-> TokenThrown]
         ELSE [proceeds |-> TRUE, result |-> NoTokenResult]
    ELSE IF options.grantType = "refresh_token"
    THEN IF ~Truthy(options.props.microsoftRefreshToken)
         THEN [proceeds |-> FALSE, result |-> TokenThrown]
         ELSE [proceeds |-> TRUE, result |-> NoTokenResult]
    ELSE [proceeds |-> FALSE, result |-> TokenUnchanged]

\* What the call ends in, given the answer of the Microsoft endpoint.
AfterUpstream(options, response) ==
    IF options.grantType = "authorization_code"
    THEN AuthorizationCodeGrant(options.props, exchangeMicrosoftTokens(response))
    ELSE RefreshTokenGrant(options.props, refreshMicrosoftTokens(response))

\* completeAuthorization stores the props of a new grant: the authorization
\* code of the Microsoft redirect (/callback has refused a request without
\* one), the callback URI and the client type.
CompleteAuthorization(code) ==
    /\ \A i \in TokenCalls : tPc[i] = "idle"
    /\ grantProps' = [NoProps EXCEPT !.microsoftAuthCode = code,
                                     !.microsoftRedirectUri =
                                         JStr("https://mcp.example.com/callback"),
                                     !.clientType = JStr("mcp-remote")]
    /\ UNCHANGED <<tPc, tOptions, tResult, tUpstreamCalls, tResponses, redeemedCodes, minted>>
    /\ UNCHANGED <<dispatchVars, sseVars, resolverVars, bridgeVars, initVars, agentVars>>

\* The provider calls tokenExchangeCallback with the props of the grant; the
\* call runs up to its await of the Microsoft endpoint.
TokenCallbackBegin(i, grantType) ==
    LET options == [grantType |-> grantType, props |-> grantProps]
    IN /\ tPc[i] = "idle"
       /\ tOptions' = [tOptions EXCEPT ![i] = options]
       /\ tPc' = [tPc EXCEPT ![i] = IF BeforeUpstream(options).proceeds
                                    THEN "calling" ELSE "done"]
       /\ tResult' = [tResult EXCEPT ![i] = BeforeUpstream(options).result]
       /\ UNCHANGED <<grantProps, tUpstreamCalls, tResponses, redeemedCodes, minted>>
       /\ UNCHANGED <<dispatchVars, sseVars, resolverVars, bridgeVars, initVars, agentVars>>

\* The Microsoft endpoint answers.  It redeems an authorization code once: a
\* code it has redeemed gets a failure.  The provider stores newProps of a
\* call that returns on the grant.
UpstreamRespond(i, response) ==
    LET options == tOptions[i]
        call == UpstreamCallOf(options)
        result == AfterUpstream(options, response)
        redeems == options.grantType = "authorization_code" /\ response.ok
    IN /\ tPc[i] = "calling"
       /\ redeems => (call.code.t = "string" /\ call.code.s \notin redeemedCodes)
       /\ redeemedCodes' = IF redeems THEN redeemedCodes \cup {call.code.s}
                           ELSE redeemedCodes
       /\ tUpstreamCalls' = [tUpstreamCalls EXCEPT ![i] = Append(@, call)]
       /\ tResponses' = [tResponses EXCEPT ![i] = Append(@, response)]
       /\ tResult' = [tResult EXCEPT ![i] = result]
       /\ tPc' = [tPc EXCEPT ![i] = "done"]
       /\ grantProps' = IF result.kind = "returned" THEN result.newProps ELSE grantProps
       /\ minted' = IF /\ options.grantType = "authorization_code"
                       /\ result.kind = "returned"
                       /\ call.code.s \in AuthorizationCodes
                    THEN [minted EXCEPT ![call.code.s] = IF @ < 2 THEN @ + 1 ELSE @]
                    ELSE minted
       /\ UNCHANGED tOptions
       /\ UNCHANGED <<dispatchVars, sseVars, resolverVars, bridgeVars, initVars, agentVars>>

\* The call is over; the provider has its result.
TokenCallbackReturn(i) ==
    /\ tPc[i] = "done"
    /\ tPc' = [tPc EXCEPT ![i] = "idle"]
    /\ tOptions' = [tOptions EXCEPT ![i] = NoTokenOptions]
    /\ tResult' = [tResult EXCEPT ![i] = NoTokenResult]
    /\ tUpstreamCalls' = [tUpstreamCalls EXCEPT ![i] = <<>>]
    /\ tResponses' = [tResponses EXCEPT ![i] = <<>>]
    /\ UNCHANGED <<grantProps, redeemedCodes, minted>>
    /\ UNCHANGED <<dispatchVars, sseVars, resolverVars, bridgeVars, initVars, agentVars>>

NextToken ==
    \/ \E c \in AuthorizationCodes : CompleteAuthorization(JStr(c))
    \/ \E i \in TokenCalls, grantType \in GrantTypes : TokenCallbackBegin(i, grantType)
    \/ \E i \in TokenCalls, response \in MicrosoftResponses : UpstreamRespond(i, response)
    \/ \E i \in TokenCalls : TokenCallbackReturn(i)

SpecToken == Init /\ [][NextToken]_vars

----------------------------------------------------------------------------
(* initializeMCPClient, step by step (src/src/index.ts 179-214)             *)

\* Values of Math.floor(Date.now() / 1000) at three moments.
RegistrationDates == {"1730000000", "1730000001", "1730000002"}

\* env.OAUTH_KV.get and the test of existingClient; a store that throws lands
\* in the catch block, which logs and returns.
InitClientGet(p, kvThrows) ==
    /\ icPc[p] = "idle"
    /\ IF kvThrows
       THEN /\ icPc' = [icPc EXCEPT ![p] = "done"]
            /\ icOutcome' = [icOutcome EXCEPT ![p] = "failed"]
       ELSE IF kvClient.exists
       THEN /\ icPc' = [icPc EXCEPT ![p] = "done"]
            /\ icOutcome' = [icOutcome EXCEPT ![p] = "exists"]
       ELSE /\ icPc' = [icPc EXCEPT ![p] = "creating"]
            /\ icOutcome' = [icOutcome EXCEPT ![p] = "none"]
    /\ UNCHANGED <<kvClient, kvPuts>>
    /\ UNCHANGED <<dispatchVars, sseVars, resolverVars, bridgeVars, tokenVars, agentVars>>

\* clientInfo is built with the current time and put under the key.
InitClientPut(p, registrationDate, kvThrows) ==
    /\ icPc[p] = "creating"
    /\ icPc' = [icPc EXCEPT ![p] = "done"]
    /\ IF kvThrows
       THEN /\ icOutcome' = [icOutcome EXCEPT ![p] = "failed"]
            /\ UNCHANGED <<kvClient, kvPuts>>
       ELSE /\ icOutcome' = [icOutcome EXCEPT ![p] = "created"]
            /\ kvClient' = ClientRecord(registrationDate)
            /\ kvPuts' = kvPuts + 1
    /\ UNCHANGED <<dispatchVars, sseVars, resolverVars, bridgeVars, tokenVars, agentVars>>

\* The execution has returned; a later request starts another.
InitClientReturn(p) ==
    /\ icPc[p] = "done"
    /\ icPc' = [icPc EXCEPT ![p] = "idle"]
    /\ icOutcome' = [icOutcome EXCEPT ![p] = "none"]
    /\ UNCHANGED <<kvClient, kvPuts>>
    /\ UNCHANGED <<dispatchVars, sseVars, resolverVars, bridgeVars, tokenVars, agentVars>>

NextInitClient ==
    \/ \E p \in Inits, kvThrows \in BOOLEAN : InitClientGet(p, kvThrows)
    \/ \E p \in Inits, date \in RegistrationDates, kvThrows \in BOOLEAN :
           InitClientPut(p, date, kvThrows)
    \/ \E p \in Inits : InitClientReturn(p)

SpecInitClient == Init /\ [][NextInitClient]_vars

----------------------------------------------------------------------------
(* MicrosoftMCPAgent (src/src/utils.ts 223-708) and the Graph client        *)

\* The tools and resources registered by init(), each with the method of
\* MicrosoftGraphClient it calls; authenticate calls none.
GraphMethodOf ==
    [sendEmail |-> "sendEmail", getEmails |-> "getEmails",
     searchEmails |-> "searchEmails", getCalendarEvents |-> "getCalendarEvents",
     createCalendarEvent |-> "createCalendarEvent",
     sendTeamsMessage |-> "sendTeamsMessage",
     createTeamsMeeting |-> "createTeamsMeeting", getContacts |-> "getContacts",
     authenticate |-> "", profile |-> "getUserProfile",
     calendars |-> "getCalendars", teams |-> "getTeams"]

\* makeGraphRequest: the fetch carries Authorization: Bearer {accessToken}.
makeGraphRequest(method, accessToken) ==
    [sent |-> TRUE, method |-> method, authorization |-> <<"Bearer ", accessToken>>]

HandlerCall_NoTokenCheck(h, props) ==
    IF h = "authenticate"
    THEN [result |-> "text", graph |-> NoGraphRequest]
    ELSE [result |-> "none",
          graph |-> makeGraphRequest(GraphMethodOf[h],
                                     IF props.isNull THEN JUndefined
                                     ELSE props.microsoftAccessToken)]

\* A handler up to its await of the Graph client: it reads
\* this.props?.microsoftAccessToken and returns the authentication-required
\* result when that is falsy.
HandlerCall(h, props) ==
    LET accessToken == IF props.isNull THEN JUndefined ELSE props.microsoftAccessToken
    IN IF h = "authenticate"
       THEN [result |-> "text", graph |-> NoGraphRequest]
       ELSE IF ~Truthy(accessToken)
       THEN [result |-> "auth-required", graph |-> NoGraphRequest]
       ELSE [result |-> "none", graph |-> makeGraphRequest(GraphMethodOf[h], accessToken)]

\* The session of the agent is bound to props, with or without a Microsoft
\* access token.
BindProps(microsoftAccessToken) ==
    /\ \A k \in AgentRequests : aPc[k] = "idle"
    /\ aProps' = BoundProps(microsoftAccessToken)
    /\ aBound' = aProps'
    /\ UNCHANGED <<aPc, aMode, aSaved, aHandler, aResult, aGraph>>
    /\ UNCHANGED <<dispatchVars, sseVars, resolverVars, bridgeVars, tokenVars, initVars>>

\* fetch() up to its await of super.fetch: in the modes handshake and other
\* it keeps this.props in originalProps and sets this.props to null.
AgentFetchBegin(k, mcpMode) ==
    /\ aPc[k] = "idle"
    /\ aPc' = [aPc EXCEPT ![k] = "super"]
    /\ aMode' = [aMode EXCEPT ![k] = mcpMode]
    /\ IF mcpMode \in {"handshake", "other"}
       THEN /\ aSaved' = [aSaved EXCEPT ![k] = aProps]
            /\ aProps' = NullProps
       ELSE UNCHANGED <<aSaved, aProps>>
    /\ UNCHANGED <<aBound, aHandler, aResult, aGraph>>
    /\ UNCHANGED <<dispatchVars, sseVars, resolverVars, bridgeVars, tokenVars, initVars>>

\* Inside super.fetch the MCP server runs the handler the request names.
InvokeHandler(k, h) ==
    /\ aPc[k] = "super" /\ aHandler[k] = "none"
    /\ aHandler' = [aHandler EXCEPT ![k] = h]
    /\ aResult' = [aResult EXCEPT ![k] = HandlerCall(h, aProps).result]
    /\ aGraph' = [aGraph EXCEPT ![k] = HandlerCall(h, aProps).graph]
    /\ aPc' = [aPc EXCEPT ![k] = IF HandlerCall(h, aProps).graph.sent THEN "graph"
                                  ELSE "handled"]
    /\ UNCHANGED <<aProps, aBound, aMode, aSaved>>
    /\ UNCHANGED <<dispatchVars, sseVars, resolverVars, bridgeVars, tokenVars, initVars>>

\* Microsoft Graph answers; a failure is caught by the handler and reported
\* in its result.
GraphRespond(k, ok) ==
    /\ aPc[k] = "graph"
    /\ aPc' = [aPc EXCEPT ![k] = "handled"]
    /\ aResult' = [aResult EXCEPT ![k] = IF ok THEN "content" ELSE "graph-error"]
    /\ UNCHANGED <<aProps, aBound, aMode, aSaved, aHandler, aGraph>>
    /\ UNCHANGED <<dispatchVars, sseVars, resolverVars, bridgeVars, tokenVars, initVars>>

\* super.fetch has settled, with a response or an exception; the finally
\* block of the handshake branch puts originalProps back.
AgentFetchEnd(k) ==
    /\ aPc[k] \in {"super", "handled"}
    /\ aProps' = IF aMode[k] \in {"handshake", "other"} THEN aSaved[k] ELSE aProps
    /\ aPc' = [aPc EXCEPT ![k] = "idle"]
    /\ aMode' = [aMode EXCEPT ![k] = "none"]
    /\ aSaved' = [aSaved EXCEPT ![k] = NullProps]
    /\ aHandler' = [aHandler EXCEPT ![k] = "none"]
    /\ aResult' = [aResult EXCEPT ![k] = "none"]
    /\ aGraph' = [aGraph EXCEPT ![k] = NoGraphRequest]
    /\ UNCHANGED aBound
    /\ UNCHANGED <<dispatchVars, sseVars, resolverVars, bridgeVars, tokenVars, initVars>>

NextAgent ==
    \/ \E tk \in {JUndefined, JStr(""), JStr("msAT1")} : BindProps(tk)
    \/ \E k \in AgentRequests, mcpMode \in {"handshake", "other", "absent"} :
           AgentFetchBegin(k, mcpMode)
    \/ \E k \in AgentRequests, h \in DOMAIN GraphMethodOf : InvokeHandler(k, h)
    \/ \E k \in AgentRequests, ok \in BOOLEAN : GraphRespond(k, ok)
    \/ \E k \in AgentRequests : AgentFetchEnd(k)

SpecAgent == Init /\ [][NextAgent]_vars

----------------------------------------------------------------------------
(* Vocabulary of the claims, stated on the request and not through the      *)
(* handlers' own conditions.                                                *)

HasValue(v) == v.t = "string" /\ v.s # ""

\* The invocation handled a request to the unified endpoint (/sse, /sse/...).
OnUnifiedEndpoint == phase = "handled" /\ Len(req.path) >= 1 /\ req.path[1] = "sse"

\* Upgrade: websocket in some letter case, or key and version both carried.
CarriesWebSocketSignals(r) ==
    \/ r.upgrade.t = "string" /\ r.upgrade.s \in {"websocket", "WebSocket", "WEBSOCKET"}
    \/ HasValue(r.wsKey) /\ HasValue(r.wsVersion)

AcceptsEventStream(r) ==
    r.accept.t = "string"
      /\ r.accept.s \in {"text/event-stream", "application/json, text/event-stream"}

\* A POST to the unified endpoint that is not a WebSocket upgrade.
JsonRpcPost == OnUnifiedEndpoint /\ req.method = "POST" /\ ~CarriesWebSocketSignals(req)

AllowlistOfTheClaims ==
    {"initialize", "initialized", "tools/list", "resources/list", "prompts/list",
     "notifications/initialized", "notifications/cancelled"}

\* The request presents an access token the downstream OAuth server issued.
PresentsBridgedToken(r) == r.authorization.t = "string" /\ r.authorization.s \in issued

\* A non-empty URL whose last part is /authorize and whose host is not empty.
IsAuthorizeUrl(u) == Len(u) = 3 /\ u[1] = "https://" /\ u[2] # "" /\ u[3] = "/authorize"

\* C1: every request to the unified endpoint that carries Upgrade: websocket
\* (any letter case) or both Sec-WebSocket-Key and Sec-WebSocket-Version is
\* routed to WebSocket handling, whatever its method and Accept header, and
\* never to the SSE handler or the JSON-RPC handler.
C1_WebSocketRouting ==
    (OnUnifiedEndpoint /\ CarriesWebSocketSignals(req))
      => (route = "websocket" /\ resp.kind # "event-stream" /\ resp.code = 0)

C1_Witness ==
    /\ OnUnifiedEndpoint
    /\ req.upgrade = JNull /\ HasValue(req.wsKey) /\ HasValue(req.wsVersion)
    /\ req.method = "GET" /\ req.accept = JStr("text/event-stream")
    /\ route = "websocket"

\* C2: a JSON-RPC POST whose method is in the handshake allowlist is answered
\* with a success (200, never -32001 or -32601), and the answer is the same
\* for every value of the authorization header.
C2_HandshakeNeedsNoToken ==
    (JsonRpcPost /\ req.body.kind = "object" /\ req.body.method.t = "string"
       /\ req.body.method.s \in AllowlistOfTheClaims)
      => /\ resp.status = 200
         /\ resp.code \notin {-32001, -32601}
         /\ \A a \in AuthorizationValues :
               unifiedHandler([req EXCEPT !.authorization = a], "none").response = resp

C2_Witness ==
    /\ JsonRpcPost
    /\ req.body.method = JStr("tools/list")
    /\ req.authorization = JNull
    /\ resp.status = 200 /\ resp.kind = "tools-result"

\* C3: tools/call without a bridged access token is answered with JSON-RPC
\* error -32001 carrying a non-empty authorization URL ending in /authorize,
\* for every request id and every Host header, an absent one included.
C3_ToolsCallAuthRequired ==
    (JsonRpcPost /\ req.body.kind = "object" /\ req.body.method = JStr("tools/call")
       /\ ~PresentsBridgedToken(req))
      => (resp.code = -32001 /\ IsAuthorizeUrl(resp.authUrl) /\ resp.id = req.body.id)

C3_Witness ==
    /\ JsonRpcPost
    /\ req.body.method = JStr("tools/call")
    /\ req.host = JNull /\ req.body.id = JUndefined
    /\ resp.code = -32001 /\ resp.authUrl = <<"https://", WORKER_DOMAIN, "/authorize">>

\* The request names a method that is not in the handshake allowlist.
NonHandshakeCall ==
    JsonRpcPost /\ req.body.kind = "object" /\ Truthy(req.body.method)
      /\ ~(req.body.method.t = "string" /\ req.body.method.s \in AllowlistOfTheClaims)

\* C4, as claimed: every JSON-RPC POST whose method is not in the handshake
\* allowlist and that carries no valid bridged token is answered with the
\* -32001 authentication-required error including the authorization URL.
C4_Original ==
    (NonHandshakeCall /\ ~PresentsBridgedToken(req))
      => (resp.code = -32001 /\ IsAuthorizeUrl(resp.authUrl))

\* C4, amended: of the methods outside the handshake allowlist only tools/call
\* is answered with -32001 and the authorization URL; every other one is
\* answered with -32601 (HTTP 404) and no authorization URL.
C4_OnlyToolsCallAsksForAuth ==
    (NonHandshakeCall /\ ~PresentsBridgedToken(req))
      => IF req.body.method = JStr("tools/call")
         THEN resp.code = -32001 /\ resp.status = 401 /\ IsAuthorizeUrl(resp.authUrl)
         ELSE resp.code = -32601 /\ resp.status = 404 /\ resp.authUrl = <<>>

C4_Witness ==
    /\ NonHandshakeCall
    /\ req.body.method = JStr("resources/read")
    /\ req.authorization = JNull
    /\ resp.code = -32601

\* C5, as claimed: a tools/call that presents a valid bridged access token is
\* served, not rejected with the -32001 authentication-required error.
C5_Original ==
    (JsonRpcPost /\ req.body.kind = "object" /\ req.body.method = JStr("tools/call")
       /\ PresentsBridgedToken(req))
      => (resp.code # -32001 /\ resp.status # 401)

\* The parsed body has no method field, or an empty one.
LacksMethod(b) == b.method = JUndefined \/ b.method = JStr("")

\* C6, as claimed: a POST whose body does not parse as JSON, or parses but has
\* no method field, is answered with JSON-RPC error -32700.
C6_Original ==
    (JsonRpcPost /\ (req.body.kind = "unparsable" \/ req.body.method = JUndefined))
      => resp.code = -32700

\* C6, amended: a body that does not parse as JSON (or parses to null) is
\* answered with -32700; a body that parses to another JSON value without a
\* method (or with an empty one) is answered with -32600, HTTP 400.
C6_ParseErrorOrInvalidRequest ==
    (JsonRpcPost /\ (req.body.kind = "unparsable" \/ LacksMethod(req.body)))
      => /\ resp.status = 400
         /\ resp.code = (IF req.body.kind \in {"unparsable", "null"} THEN -32700 ELSE -32600)

C6_Witness ==
    /\ JsonRpcPost
    /\ req.body.kind = "object" /\ req.body.method = JUndefined
    /\ resp.code = -32600 /\ resp.status = 400

\* The request is none of: a WebSocket upgrade, a GET asking for an event
\* stream, a POST.
MatchesNoProtocol ==
    /\ OnUnifiedEndpoint
    /\ ~CarriesWebSocketSignals(req)
    /\ ~(req.method = "GET" /\ AcceptsEventStream(req))
    /\ req.method # "POST"

\* C7, as claimed: every request that matches none of the three protocols is
\* answered with 405, a GET without an SSE Accept header included.
C7_Original == MatchesNoProtocol => resp.status = 405

\* C7, amended: such a request is answered with 405 unless its method is GET;
\* a GET without an SSE Accept header and without WebSocket signals gets 400.
C7_405ExceptGet ==
    MatchesNoProtocol => resp.status = (IF req.method = "GET" THEN 400 ELSE 405)

C7_Witness ==
    /\ MatchesNoProtocol
    /\ req.method = "GET" /\ req.accept = JStr("application/json")
    /\ resp.status = 400

\* C8: on every SSE stream the first chunk written is the initialize result,
\* the second the tools/list result, and a keepalive ping is written only
\* after both; a stream that is being kept alive has had both written.
C8_HandshakeBeforePings ==
    \A s \in Streams :
        /\ \A i \in 1..Len(written[s]) :
              written[s][i] = (IF i = 1 THEN "initialize"
                               ELSE IF i = 2 THEN "tools/list" ELSE "ping")
        /\ pingsFired[s] > 0 => Len(written[s]) >= 2

C8_Witness ==
    \E s \in Streams :
        Len(written[s]) >= 3 /\ written[s][1] = "initialize"
          /\ written[s][2] = "tools/list" /\ written[s][3] = "ping"

\* The writer of stream s has been closed and its keepalive interval is not
\* running.
Terminated(s) == closeCalls[s] >= 1 /\ pingInterval[s] # "active"

C10_Original ==
    (phase = "handled" /\ req.path = <<"authorize">> /\ Truthy(req.clientId)
       /\ req.clientId # staticClientActual)
      => (Truthy(staticClientActual) /\ forwarded.clientId = staticClientActual)

----------------------------------------------------------------------------
(* Vocabulary of the claims about the client-id mapping functions           *)

\* Call c is an authorization request that found no alias in the store.
ReadNoAlias(c) == rKind[c] = "authorize" /\ Truthy(rRequested[c]) /\ rActual[c] = JNull
\* Its registration was answered 201.
RegisteredOwnClient(c) == ReadNoAlias(c) /\ rNew[c] # JNull
\* Its registration was attempted and was not answered 201.
RegistrationFailed(c) ==
    ReadNoAlias(c) /\ rAttempts[c] >= 1 /\ rNew[c] = JNull /\ rPc[c] = "done"
AllCallsFinished == \A c \in Calls : rPc[c] \in {"idle", "done"}
ForwardedBy(c) == rPc[c] = "done" /\ rForwarded[c].sent

C12_RegistrationFailure ==
    /\ \A c \in Calls :
           RegistrationFailed(c) =>
               /\ rResp[c] = MappingResponse(500, "server_error")
               /\ ~rForwarded[c].sent
               /\ rAttempts[c] = 1
    /\ (\A c \in Calls : rNew[c] = JNull) => staticClientActual = JNull

C12_Witness ==
    \E c \in Calls :
        /\ RegistrationFailed(c)
        /\ rResp[c].status = 500
        /\ staticClientActual = JNull

\* C13 (as claimed): a token request handled while an alias exists is
\* forwarded with client_id equal to the alias target, also when it came
\* without a client_id.
C13_Original ==
    [][\A c \in Calls :
          (rKind[c] = "none" /\ rKind'[c] = "token" /\ Truthy(staticClientActual)
              /\ rForwarded'[c].sent)
          => rForwarded'[c].clientId = staticClientActual]_vars

\* A request that names the well-known client id has been forwarded.
CompletedFor(c, kinds) ==
    rKind[c] \in kinds /\ ForwardedBy(c) /\ rRequested[c] = JStr(MCP_CLIENT_ID)

----------------------------------------------------------------------------
(* Vocabulary of the claims about /authorize and /callback                  *)

OnAuthorize == bPhase = "handled" /\ bReq.op \in {"GET /authorize", "POST /authorize"}
OnCallback == bPhase = "handled" /\ bReq.op = "GET /callback"
\* The route went past its request check into the approval / redirect logic.
ApprovalLogicRan == OnAuthorize /\ bResp.kind \in {"approval-dialog", "redirect", "thrown"}
\* The store holds the static client: its alias key or its client record.
StaticClientPersisted == Truthy(staticClientActual) \/ clientRecord

StateHasClientId(sp) ==
    /\ sp.k = "b64" /\ sp.j = "object"
    /\ \E i \in 1..Len(sp.pairs) : sp.pairs[i][1] = "clientId" /\ HasValue(sp.pairs[i][2])

\* C16 (as claimed): /callback with a state that cannot be decoded, or whose
\* decoded value has no clientId, is answered 400 invalid state and the
\* completion step is not invoked.
C16_Original ==
    (OnCallback /\ ~StateHasClientId(bReq.state)) =>
        /\ bResp.status = 400 /\ bResp.kind = "invalid-state"
        /\ ~completion.invoked

\* C17: /callback with a state that decodes with a clientId but without a
\* code is answered 400 and does not invoke completeAuthorization, which is
\* invoked only when the state decodes with a clientId and the code is there.
C17_MissingCode ==
    /\ (OnCallback /\ StateHasClientId(bReq.state) /\ ~HasValue(bReq.code)) =>
           (bResp.status = 400 /\ ~completion.invoked)
    /\ completion.invoked =>
           (OnCallback /\ StateHasClientId(bReq.state) /\ HasValue(bReq.code))

C17_Witness ==
    /\ OnCallback /\ StateHasClientId(bReq.state) /\ bReq.code = JUndefined
    /\ bReq.state = lastAttempt.state
    /\ bResp.status = 400 /\ bResp.kind = "no-code"

\* /callback carries, untouched, the state the last redirect emitted.
CarriesEmittedState == OnCallback /\ lastAttempt # NoAttempt /\ bReq.state = lastAttempt.state

\* C18: the request handed to completeAuthorization at /callback equals,
\* field for field, the downstream request from which /authorize built the
\* state, and props.clientType is the tag computed at /authorize.
C18_StateRoundTrip ==
    (CarriesEmittedState /\ completion.invoked) =>
        /\ \A i \in 1..Len(AuthRequestFields) :
               completion.request[AuthRequestFields[i]]
                   = lastAttempt.request[AuthRequestFields[i]]
        /\ completion.clientType = lastAttempt.clientType

C18_Witness ==
    /\ CarriesEmittedState /\ completion.invoked
    /\ bResp.status = 302
    /\ completion.request.codeChallenge # JUndefined
    /\ completion.clientType = JStr("claude-desktop")

\* The route answered with the redirect to the upstream authorization URL.
EmitsUpstreamRedirect == OnAuthorize /\ bResp.status = 302 /\ bResp.kind = "redirect"

\* C19 (as claimed): the upstream authorization URL has response_type=code,
\* response_mode=query, the bridge's own /callback under the request origin
\* as redirect_uri, and the scope of the downstream request.
C19_Original ==
    EmitsUpstreamRedirect =>
        /\ bResp.location.response_type = "code"
        /\ bResp.location.response_mode = "query"
        /\ bResp.location.redirect_uri = <<bReq.origin, "/callback">>
        /\ bResp.location.scope = bReq.info.scope.s

\* C19: as C19_Original, except that the scope is the fixed Microsoft Graph
\* scope list, whatever the downstream request asks for.
C19_UpstreamUrl ==
    EmitsUpstreamRedirect =>
        /\ bResp.location.response_type = "code"
        /\ bResp.location.response_mode = "query"
        /\ bResp.location.redirect_uri = <<bReq.origin, "/callback">>
        /\ bResp.location.scope = MICROSOFT_GRAPH_SCOPE

C19_Witness ==
    /\ EmitsUpstreamRedirect
    /\ bReq.origin = "https://mcp.example.com"
    /\ bReq.info.scope = JStr("User.Read")
    /\ bResp.location.scope # "User.Read"

\* C20 (as claimed): once a /callback of an attempt has failed, no later
\* /callback with the same state completes.
C20_Original == ~(CarriesEmittedState /\ attemptFailed /\ bResp.status = 302)

----------------------------------------------------------------------------
(* Vocabulary of the claims about failed requests                           *)

\* A step in which a request is answered with a 400: by a MicrosoftHandler
\* route, or as a JSON-RPC error by the unified endpoint.
ValidationErrorStep ==
    \/ bPhase = "idle" /\ bPhase' = "handled" /\ bResp'.status = 400
    \/ phase = "idle" /\ phase' = "handled" /\ resp'.status = 400
\* The persisted stores: the alias key, the static client record, the client
\* registrations and the issued tokens.
StoreUnchanged ==
    /\ clientRecord' = clientRecord
    /\ staticClientActual' = staticClientActual
    /\ registeredClients' = registeredClients
    /\ issued' = issued
\* The Response every route gives to every request is the same before and
\* after the step.
OutcomesUnchanged ==
    /\ \A r \in GetAuthorizeRequests :
           authorizeGet(r, clientRecord').response = authorizeGet(r, clientRecord).response
    /\ \A r \in PostAuthorizeRequests :
           authorizePost(r, clientRecord').response = authorizePost(r, clientRecord).response
    /\ \A r \in CallbackRequests :
           callback(r, clientRecord').response = callback(r, clientRecord).response

\* C21 (as claimed): a request that ends in a parse or validation error
\* leaves the persisted store exactly as it was.
C21_Original == [][ValidationErrorStep => StoreUnchanged]_vars

\* C21: a request that ends in a validation error changes the answer to no
\* other request and leaves the persisted store as it was, with one
\* exception: GET /authorize has run initializeMCPClient before it rejects
\* the request, so the static client record may have been created.
C21_ErrorsAreLocal ==
    [][ValidationErrorStep =>
          /\ staticClientActual' = staticClientActual
          /\ registeredClients' = registeredClients
          /\ issued' = issued
          /\ \/ clientRecord' = clientRecord
             \/ /\ bReq'.op = "GET /authorize" /\ bInit' = "created" /\ clientRecord'
                /\ OutcomesUnchanged]_vars

C21_Witness ==
    /\ bPhase = "handled" /\ bReq.op = "GET /authorize"
    /\ bResp.status = 400 /\ bResp.kind = "invalid-request"
    /\ bInit = "created" /\ clientRecord

----------------------------------------------------------------------------
(* Claims about WebSocket sessions and the metadata document                *)

\* C28: every WebSocket upgrade gets a session identifier of its own and is
\* routed to the agent instance named ws-{that identifier}; no two upgrades,
\* overlapping or one after the other, share an identifier or an instance.
C28_SessionIsolation ==
    /\ \A i \in 1..Len(wsRouted) : wsRouted[i].agent = <<"ws-", wsRouted[i].sessionId>>
    /\ \A i, j \in 1..Len(wsRouted) :
           i # j => /\ wsRouted[i].sessionId # wsRouted[j].sessionId
                    /\ wsRouted[i].agent # wsRouted[j].agent

C28_Witness ==
    /\ phase = "handled" /\ route = "websocket" /\ resp.status = 101
    /\ Len(wsRouted) >= 2
    /\ wsRouted[1].routed /\ wsRouted[2].routed
    /\ wsRouted[1].agent # wsRouted[2].agent

\* The origin (scheme and host) of the request, followed by a path.
UnderRequestOrigin(path) == <<reqUrl.protocol, "//", reqUrl.host, path>>

\* C29: GET /.well-known/oauth-authorization-server is answered 200 with a
\* JSON document whose authorization, token and registration endpoints are
\* /authorize, /token and /register under the origin of the request.
C29_MetadataEndpoints ==
    (phase = "handled" /\ req.method = "GET" /\ req.path = MetadataPath) =>
        /\ resp.status = 200 /\ resp.kind = "json-metadata"
        /\ metadata.authorization_endpoint = UnderRequestOrigin("/authorize")
        /\ metadata.token_endpoint = UnderRequestOrigin("/token")
        /\ metadata.registration_endpoint = UnderRequestOrigin("/register")

C29_Witness ==
    /\ phase = "handled" /\ req.method = "GET" /\ req.path = MetadataPath
    /\ reqUrl = [protocol |-> "http:", host |-> "worker.example.workers.dev:8787"]
    /\ metadata.token_endpoint = <<"http:", "//", "worker.example.workers.dev:8787", "/token">>

----------------------------------------------------------------------------
(* Claims about tokenExchangeCallback                                       *)

\* A call that is over, with the grant type it was made for.
CallDone(i, grantType) == tPc[i] = "done" /\ tOptions[i].grantType = grantType

\* The Microsoft endpoint answered the call, with success or with a failure.
UpstreamSucceeded(i) == Len(tResponses[i]) = 1 /\ tResponses[i][1].ok
UpstreamFailed(i) == Len(tResponses[i]) = 1 /\ ~tResponses[i][1].ok

PropsLackCredential(i) ==
    \/ /\ tOptions[i].grantType = "authorization_code"
       /\ ~Truthy(tOptions[i].props.microsoftAuthCode)
    \/ /\ tOptions[i].grantType = "refresh_token"
       /\ ~Truthy(tOptions[i].props.microsoftRefreshToken)

\* C23: a call whose props lack the Microsoft authorization code on an
\* authorization_code grant, or the Microsoft refresh token on a
\* refresh_token grant, throws, returns no props, and sends nothing to the
\* Microsoft endpoint.
C23_MissingCredentialIsFatal ==
    \A i \in TokenCalls :
        (tPc[i] # "idle" /\ PropsLackCredential(i)) =>
            /\ tPc[i] = "done"
            /\ tResult[i] = TokenThrown
            /\ tUpstreamCalls[i] = <<>>
            /\ tResponses[i] = <<>>

C23_Witness ==
    \E i, j \in TokenCalls :
        /\ CallDone(i, "authorization_code") /\ PropsLackCredential(i)
        /\ CallDone(j, "refresh_token") /\ PropsLackCredential(j)
        /\ tResult[i] = TokenThrown /\ tResult[j] = TokenThrown

\* C24: when the Microsoft endpoint answers an exchange or a refresh with a
\* failure, the call throws, returns no props, and has sent exactly one
\* request to the endpoint.
C24_UpstreamFailureIsFatal ==
    \A i \in TokenCalls :
        (tPc[i] = "done" /\ UpstreamFailed(i)) =>
            /\ tResult[i] = TokenThrown
            /\ Len(tUpstreamCalls[i]) = 1

C24_Witness ==
    \E i, j \in TokenCalls :
        /\ CallDone(i, "authorization_code") /\ UpstreamFailed(i)
        /\ CallDone(j, "refresh_token") /\ UpstreamFailed(j)
        /\ tResult[i] = TokenThrown /\ tResult[j] = TokenThrown

\* C25: with a Microsoft endpoint that redeems an authorization code once,
\* access-token props are returned for a code at most once: of two calls that
\* carry the same code, in whichever order they run and are answered, one
\* throws.
C25_CodeIsSingleUse ==
    /\ \A c \in AuthorizationCodes : minted[c] <= 1
    /\ \A i, j \in TokenCalls :
           (/\ i # j
            /\ CallDone(i, "authorization_code") /\ CallDone(j, "authorization_code")
            /\ tOptions[i].props.microsoftAuthCode = tOptions[j].props.microsoftAuthCode)
               => (tResult[i] = TokenThrown \/ tResult[j] = TokenThrown)

C25_Witness ==
    \E i, j \in TokenCalls :
        /\ i < j
        /\ CallDone(i, "authorization_code") /\ CallDone(j, "authorization_code")
        /\ tOptions[i].props.microsoftAuthCode = JStr("msCodeA")
        /\ tOptions[j].props.microsoftAuthCode = JStr("msCodeA")
        /\ tResult[i] = TokenThrown /\ UpstreamFailed(i)
        /\ tResult[j].kind = "returned"
        /\ minted["msCodeA"] = 1

\* C26: a refresh that succeeds on props holding a Microsoft refresh token
\* returns refresh props with a non-empty Microsoft refresh token, the one of
\* the upstream response when it has one and the prior one otherwise, and
\* access-token props with the access token of that response; so the grant
\* keeps a non-empty refresh token through any sequence of refreshes.
C26_RefreshKeepsRefreshToken ==
    /\ \A i \in TokenCalls :
           (CallDone(i, "refresh_token") /\ UpstreamSucceeded(i)) =>
               LET prior == tOptions[i].props.microsoftRefreshToken
                   tokens == tResponses[i][1]
               IN /\ tResult[i].kind = "returned"
                  /\ Truthy(tResult[i].newProps.microsoftRefreshToken)
                  /\ tResult[i].newProps.microsoftRefreshToken =
                         (IF Truthy(tokens.refresh_token) THEN tokens.refresh_token
                          ELSE prior)
                  /\ tResult[i].accessTokenProps.microsoftAccessToken = tokens.access_token
    /\ (\E i \in TokenCalls : tPc[i] # "idle" /\ tOptions[i].grantType = "refresh_token"
                                 /\ ~PropsLackCredential(i))
           => Truthy(grantProps.microsoftRefreshToken)

C26_Witness ==
    \E i, j \in TokenCalls :
        /\ i # j
        /\ CallDone(i, "refresh_token") /\ UpstreamSucceeded(i)
        /\ CallDone(j, "refresh_token") /\ UpstreamSucceeded(j)
        /\ tOptions[i].props.microsoftRefreshToken = JStr("msRT1")
        /\ tResponses[i][1].refresh_token = JStr("msRT2")
        /\ tOptions[j].props.microsoftRefreshToken = JStr("msRT2")
        /\ tResponses[j][1].refresh_token = JUndefined
        /\ tResult[j].newProps.microsoftRefreshToken = JStr("msRT2")
        /\ tResult[j].accessTokenProps.microsoftAccessToken = JStr("msAT2")
        /\ grantProps.microsoftRefreshToken = JStr("msRT2")

\* C27: through every sequence of exchanges and refreshes, the props kept on
\* the grant, and the refresh props every call returns, hold no Microsoft
\* access token; the access token is in the access-token props only.
C27_RefreshPropsHoldNoAccessToken ==
    /\ grantProps.microsoftAccessToken = JUndefined
    /\ \A i \in TokenCalls :
           /\ tOptions[i].props.microsoftAccessToken = JUndefined
           /\ tResult[i].newProps.microsoftAccessToken = JUndefined
           /\ (tPc[i] = "done" /\ tResult[i].kind = "returned") =>
                  /\ tResult[i].accessTokenProps.microsoftAccessToken = tResponses[i][1].access_token
                  /\ Truthy(tResult[i].accessTokenProps.microsoftAccessToken)

C27_Witness ==
    \E i, j \in TokenCalls :
        /\ CallDone(i, "authorization_code") /\ tResult[i].kind = "returned"
        /\ CallDone(j, "refresh_token") /\ tResult[j].kind = "returned"
        /\ tResult[i].accessTokenProps.microsoftAccessToken = JStr("msAT1")
        /\ tResult[j].accessTokenProps.microsoftAccessToken = JStr("msAT2")
        /\ grantProps.microsoftRefreshToken = JStr("msRT2")
        /\ grantProps.microsoftAccessToken = JUndefined

----------------------------------------------------------------------------
(* Claim about the approval step of /authorize                              *)

\* GET /authorize was handled for a request that names a client.
OnGetAuthorizeForClient ==
    bPhase = "handled" /\ bReq.op = "GET /authorize" /\ Truthy(bReq.info.clientId)

RedirectsToMicrosoft == bResp.status = 302 /\ bResp.kind = "redirect"

\* C30: a redirect to Microsoft is emitted only after approval.  GET /authorize
\* for a client that the approval cookie does not name renders the approval
\* dialog and emits no redirect; GET /authorize for a client the cookie names
\* redirects straight through.
C30_Original ==
    /\ (OnGetAuthorizeForClient /\ ~bReq.approved) =>
           (bResp.kind = "approval-dialog" /\ bResp.location = NoLocation)
    /\ (OnGetAuthorizeForClient /\ bReq.approved) => RedirectsToMicrosoft

----------------------------------------------------------------------------
(* Claim about the agent's answer to WebSocket requests                     *)

\* handleHybridMcp took its WebSocket branch and the hand-over to the agent
\* did not fail.
ClassifiedWebSocket ==
    /\ phase = "handled" /\ route = "websocket"
    /\ resp.kind \notin {"text-websocket-upgrade-failed", "text-websocket-processing-error"}

\* C39: every request the dispatcher classifies as WebSocket, one detected
\* through Sec-WebSocket-Key and Sec-WebSocket-Version alone included, is
\* answered by the agent with status 101; none falls through to the agent's
\* ordinary authenticated handling.
C39_Original ==
    ClassifiedWebSocket => (resp.status = 101 /\ resp.kind = "websocket")

----------------------------------------------------------------------------
(* Claim about closing an SSE stream                                        *)

\* C37: on every SSE stream, in every order of handshake failure, ping
\* failure and timer expiry, writer.close() is called at most once, and once
\* it has been called nothing more is written to the stream.
C37_Original ==
    [][\A s \in Streams :
          closeCalls[s] >= 1 =>
              (closeCalls'[s] = closeCalls[s] /\ written'[s] = written[s])]_vars

----------------------------------------------------------------------------
(* Claim about the stability of the alias                                   *)

\* Call c read the alias as absent and has not returned yet.
PendingFirstUse(c) == ReadNoAlias(c) /\ rPc[c] \in {"register", "put"}

\* C34 (as claimed): once the alias key holds a value, no later step of the
\* mapping functions changes it.
C34_Original ==
    [][Truthy(staticClientActual) => staticClientActual' = staticClientActual]_vars

\* C34: the alias key is written only by an authorization request that read
\* it as absent, with the id that request registered.  A value that is set
\* can still be replaced by such a request that read the key before it was
\* set (last write wins); once no such request is pending the value stays.
C34_AliasWrittenByFirstUseOnly ==
    [][/\ staticClientActual' # staticClientActual =>
              \E c \in Calls : /\ PendingFirstUse(c) /\ rPc[c] = "put" /\ rPc'[c] = "done"
                               /\ Truthy(rNew[c]) /\ staticClientActual' = rNew[c]
       /\ (Truthy(staticClientActual) /\ \A c \in Calls : ~PendingFirstUse(c)) =>
              staticClientActual' = staticClientActual]_vars

C34_Witness ==
    \E c, d \in Calls :
        /\ c # d /\ ReadNoAlias(c) /\ ReadNoAlias(d)
        /\ ForwardedBy(c) /\ ForwardedBy(d)
        /\ rForwarded[c].clientId = rNew[c] /\ rForwarded[d].clientId = rNew[d]
        /\ rNew[c] # rNew[d]
        /\ staticClientActual = rNew[d]

----------------------------------------------------------------------------
(* Claim about what the access-token props carry                            *)

\* The call returned props.
ReturnedProps(i) == tPc[i] = "done" /\ tResult[i].kind = "returned"

----------------------------------------------------------------------------
(* Claims about completions at /callback                                    *)

\* C31: the userId handed to completeAuthorization is stable: a completion
\* for an authorization request carries the same userId as the first
\* completion for that request, whenever the callbacks run.
C31_Original ==
    (CarriesEmittedState /\ completion.invoked /\ attemptUserId # NoUserId) =>
        completion.userId = attemptUserId

\* No pass through /authorize emitted the state of the request.
CarriesForgedState == OnCallback /\ bReq.state \in ForgedStates /\ bReq.state # lastAttempt.state

C38_Original ==
    [][(/\ attemptCompleted
        /\ bPhase = "idle" /\ bPhase' = "handled" /\ bReq'.op = "GET /callback"
        /\ bReq'.state = lastAttempt.state)
           => ~completion'.invoked]_vars

----------------------------------------------------------------------------
(* Claim about the static client record                                     *)

\* C33: once the record client:{MCP_CLIENT_ID} is in the store, no execution
\* of initializeMCPClient, two overlapping first executions included, writes
\* the key again or changes a field of the record.
C33_Original ==
    [][kvClient.exists => (kvClient' = kvClient /\ kvPuts' = kvPuts)]_vars

----------------------------------------------------------------------------
(* Claims about the agent                                                   *)

\* Request k has run a handler that needs Microsoft Graph.
RanGraphHandler(k) == aHandler[k] \notin {"none", "authenticate"}

\* C35: no Microsoft Graph request is sent without an access token.  A tool
\* or resource handler other than authenticate that runs while the props lack
\* microsoftAccessToken returns the authentication-required result and sends
\* nothing; every Graph request sent carries the access token of the props.
C35_NoGraphCallWithoutToken ==
    \A k \in AgentRequests :
        /\ (RanGraphHandler(k) /\ ~Truthy(aBound.microsoftAccessToken)) =>
               (aResult[k] = "auth-required" /\ ~aGraph[k].sent)
        /\ aResult[k] = "auth-required" => ~aGraph[k].sent
        /\ aHandler[k] = "authenticate" => (aResult[k] = "text" /\ ~aGraph[k].sent)
        /\ aGraph[k].sent =>
               /\ RanGraphHandler(k)
               /\ aGraph[k].method = GraphMethodOf[aHandler[k]]
               /\ Truthy(aBound.microsoftAccessToken)
               /\ aGraph[k].authorization = <<"Bearer ", aBound.microsoftAccessToken>>

C35_Witness ==
    \E k, m \in AgentRequests :
        /\ aHandler[k] = "profile" /\ aResult[k] = "auth-required" /\ ~aGraph[k].sent
        /\ aHandler[m] = "sendEmail" /\ aResult[m] = "content"
        /\ aGraph[m] = [sent |-> TRUE, method |-> "sendEmail",
                        authorization |-> <<"Bearer ", JStr("msAT1")>>]

\* C36: the clearing of this.props for a request in mode handshake or other
\* is invisible to other requests: a request without such a mode, on an agent
\* whose props hold an access token, never finds the props null.
C36_Original ==
    \A k \in AgentRequests :
        (aMode[k] = "absent" /\ RanGraphHandler(k) /\ Truthy(aBound.microsoftAccessToken))
            => aResult[k] # "auth-required"

====
